---- MODULE Spec2Model ----
(***************************************************************************)
(* Privacy-tiered vault storage engine of FraudGuard.                      *)
(*                                                                         *)
(* Two managers of the repository are modelled:                            *)
(*   - RealWalrusSealPasswordManager (frontend/src/lib/walrus-seal-real.ts)*)
(*     with the component that drives it (unnamed/part_002): the hybrid    *)
(*     manager, a vault in memory, its mirror in localStorage and the      *)
(*     remote Walrus store;                                                *)
(*   - Track3PasswordManager with WalrusStorage and SealProofSystem        *)
(*     (frontend/src/lib/walrus-seal-track3.ts).                           *)
(*                                                                         *)
(* Spec runs create, add, update, delete and read of the hybrid manager,   *)
(* SpecUnlock the component's unlock and lock, SpecXfer export and import, *)
(* SpecSession the session of test-real-sdk.ts, and SpecT3 the Track 3     *)
(* manager.  SpecClassify applies determinePrivacyLevel, SpecSeal the      *)
(* proof system over two days, SpecRetrieve WalrusStorage with proofs, and *)
(* SpecCipher its encryption and decryption.  SpecReset runs the resets    *)
(* over two addresses, SpecStrength the strength checkers, SpecGetAll the  *)
(* reads of either manager, and SpecTsx the localStorage component of      *)
(* frontend/src/components/PasswordManager.tsx.  Every handler there is    *)
(* one action: it runs to completion, the outcome of each remote call it   *)
(* awaits being chosen nondeterministically.  SpecAsync and SpecAccounts   *)
(* split addPassword and updatePassword at the await of the remote store,  *)
(* so that other calls run while the store is in flight.  SpecLoad runs    *)
(* unlock and lock over a mirror that another writer of localStorage may   *)
(* leave unparseable, SpecVerify unlock with export and import, and        *)
(* SpecView and SpecList the component's add, edit, delete and import      *)
(* handlers over two addresses and over one.  The component's list is      *)
(* either an array of its own or the very array this.vault.passwords that  *)
(* getAllPasswords returned: uiPasswords records which, and a manager call *)
(* that replaces this.vault leaves the component with the old array.       *)
(***************************************************************************)
EXTENDS Integers, Sequences, FiniteSets, TLC

VARIABLES
  now,                  \* Date.now(), in ticks
  sdkInitialized,       \* RealWalrusSealPasswordManager.sdkInitialized
  currentWalletAddress, \* RealWalrusSealPasswordManager.currentWalletAddress
  vault,                \* RealWalrusSealPasswordManager.vault
  localStorage,         \* window.localStorage (the local mirror)
  walrus,               \* blobs the remote store accepted, by storage id
  walrusDeleted,        \* storage ids the remote store deleted
  isUnlocked,           \* PasswordManager component: isUnlocked
  exportFile,           \* the file the last exportVault produced
  createdWith,          \* history: the master password each address's vault was created with
  exported,             \* history: the passwords and master password of the last export
  t3WalletAddress,      \* Track3PasswordManager.currentWalletAddress
  t3Vault,              \* Track3PasswordManager.vault
  t3Storage,            \* WalrusStorage: storage and privacyLevels, by reference id
  t3ExportFile,         \* the file the last Track3PasswordManager.exportVault produced
  uiPasswords,          \* the component: its state passwords, an array of its own or the
                        \* array this.vault.passwords it got from getAllPasswords
  tsx,                  \* PasswordManager.tsx: its state passwords and isUnlocked
  settled,              \* history: the list PasswordManager.tsx showed after the last change
  pending,              \* the storePasswordInWalrus calls awaiting the remote store
  last                  \* the last call: what the caller got and what happened

vars == <<now, sdkInitialized, currentWalletAddress, vault, localStorage,
          walrus, walrusDeleted, isUnlocked, exportFile, createdWith, exported,
          t3WalletAddress, t3Vault, t3Storage, t3ExportFile, uiPasswords, tsx, settled,
          pending, last>>

\* The state of the Track 3 manager, of the localStorage component, and of the
\* hybrid manager with the rest.
t3Vars == <<t3WalletAddress, t3Vault, t3Storage, t3ExportFile>>
tsxVars == <<tsx, settled>>
realVars == <<sdkInitialized, currentWalletAddress, vault, localStorage, walrus,
              walrusDeleted, isUnlocked, exportFile, createdWith, exported, tsxVars, uiPasswords,
              pending>>

(***************************************************************************)
(* Bounds of the model.                                                    *)
(***************************************************************************)
MaxTime == 1
MaxRecords == 2
MaxBlobs == 1
MaxShown == 4
MaxInFlight == 1

(***************************************************************************)
(* Values.                                                                 *)
(***************************************************************************)
NoWallet == "null"
Wallets == {"wA", "wB"}
NoItem == [kind |-> "null"]
NoVault == [kind |-> "null"]
NoMaster == "null"
DefaultMasterPassword == "default-master-password"
Sentinel == "[ENCRYPTED]"
EmptyMap == [x \in {} |-> 0]

HasField(r, f) == f \in DOMAIN r

MapPut(f, k, v) == [x \in (DOMAIN f) \cup {k} |-> IF x = k THEN v ELSE f[x]]
MapRemove(f, k) == [x \in (DOMAIN f) \ {k} |-> f[x]]

\* Array.prototype.findIndex(p => p.id === id): 0 stands for -1.
FindIndex(passwords, id) ==
  IF \E i \in 1..Len(passwords) : passwords[i].id = id
  THEN CHOOSE i \in 1..Len(passwords) :
         /\ passwords[i].id = id
         /\ \A j \in 1..(i - 1) : passwords[j].id # id
  ELSE 0

\* Array.prototype.splice(index, 1).
Splice(s, index) == [i \in 1..(Len(s) - 1) |-> IF i < index THEN s[i] ELSE s[i + 1]]

Ids(passwords) == {passwords[i].id : i \in 1..Len(passwords)}

(***************************************************************************)
(* A PasswordEntry as a caller hands it over.  id "" is an absent id and   *)
(* privacyLevel "" an absent level; walrusId and proofHash 0 are absent.   *)
(***************************************************************************)
Entry(id, title, password, notes, category, level, created, updated) ==
  [id |-> id, title |-> title, password |-> password, notes |-> notes,
   category |-> category, createdAt |-> created, updatedAt |-> updated,
   zkVerified |-> FALSE, privacyLevel |-> level, proofHash |-> 0, walrusId |-> 0]

(***************************************************************************)
(* JSON.stringify / JSON.parse of the vault.  A Date is written as its ISO *)
(* string and read back with new Date(...).                                *)
(***************************************************************************)
ToISOString(t) == [iso |-> t]
NewDate(s) == s.iso

StringifyEntry(p) ==
  [p EXCEPT !.createdAt = ToISOString(p.createdAt), !.updatedAt = ToISOString(p.updatedAt)]
ReviveEntry(p) ==
  [p EXCEPT !.createdAt = NewDate(p.createdAt), !.updatedAt = NewDate(p.updatedAt)]

\* A walrusReferences entry: storedAt is a Date until it has been through JSON,
\* and nothing reads it back with new Date(...).
StringifyReferences(refs) ==
  [id \in DOMAIN refs |->
     [refs[id] EXCEPT !.storedAt = IF HasField(@, "date") THEN ToISOString(@.date) ELSE @]]

StringifyVault(v) ==
  [kind |-> "json", walletAddress |-> v.walletAddress,
   passwords |-> [i \in 1..Len(v.passwords) |-> StringifyEntry(v.passwords[i])],
   walrusReferences |-> StringifyReferences(v.walrusReferences),
   entryCount |-> v.entryCount]

ParseVault(s) ==
  [kind |-> "vault", walletAddress |-> s.walletAddress,
   passwords |-> [i \in 1..Len(s.passwords) |-> ReviveEntry(s.passwords[i])],
   walrusReferences |-> s.walrusReferences,
   entryCount |-> s.entryCount]

(***************************************************************************)
(* localStorage: the key fraudguard-master-password, per address the keys  *)
(* fraudguard-vault-<address> and fraudguard-keypair-<address>, the key    *)
(* fraudguard-passwords of PasswordManager.tsx, and the keys of others.    *)
(***************************************************************************)
\* The keys other code of the origin keeps in localStorage.
OtherKeys == {"vite-ui-theme"}

\* A stored text that JSON.parse, or the reading of its fields, throws on.
Unparseable == [kind |-> "text"]

GetMasterPassword(ls) ==
  IF ls.master = NoMaster THEN DefaultMasterPassword ELSE ls.master

StoreMasterPassword(ls, masterPassword) == [ls EXCEPT !.master = masterPassword]

SaveVaultToStorage(ls, v, wallet) ==
  IF v = NoVault \/ wallet = NoWallet THEN ls
  ELSE [ls EXCEPT !.vaults[wallet] = StringifyVault(v)]

(***************************************************************************)
(* storePasswordInWalrus for the entry at index idx of the vault.  ok is   *)
(* the outcome of the awaited proof generation and walrusClient.store.     *)
(* The state threaded through is [vault, walrus].                          *)
(***************************************************************************)
CriticalData(p, ls, wallet, t) ==
  [id |-> p.id, password |-> p.password, notes |-> p.notes,
   masterPassword |-> GetMasterPassword(ls), walletAddress |-> wallet,
   timestamp |-> ToISOString(t)]

StorePasswordInWalrus(st, idx, ok, sdk, ls, wallet, t) ==
  IF ~sdk THEN st
  ELSE IF ~ok THEN st
  ELSE LET storageId == Len(st.walrus) + 1
           p == st.vault.passwords[idx]
           ref == [walrusId |-> storageId, proofHash |-> storageId, storedAt |-> [date |-> t]]
       IN [vault |-> [st.vault EXCEPT
                        !.passwords[idx].walrusId = storageId,
                        !.passwords[idx].proofHash = storageId,
                        !.walrusReferences = MapPut(@, p.id, ref)],
           walrus |-> Append(st.walrus, CriticalData(p, ls, wallet, t))]

\* The loop of createVault over the initial passwords; oks[i] is the outcome for entry i.
RECURSIVE StoreAll(_, _, _, _, _, _, _)
StoreAll(st, idx, oks, sdk, ls, wallet, t) ==
  IF idx > Len(st.vault.passwords) THEN st
  ELSE StoreAll(StorePasswordInWalrus(st, idx, oks[idx], sdk, ls, wallet, t),
                idx + 1, oks, sdk, ls, wallet, t)

\* How many stores the remote store accepts in a call: bounded by MaxBlobs.
CanStore(n) == Len(walrus) + n <= MaxBlobs

(***************************************************************************)
(* A storePasswordInWalrus that awaits the remote store holds the entry    *)
(* object it was called with: index is the place of that object in         *)
(* this.vault.passwords, 0 once the object is no longer in the array of    *)
(* the vault in memory.  data is the criticalData built before the await.  *)
(***************************************************************************)
InFlight(op, index, data) == [op |-> op, index |-> index, data |-> data]

\* splice(index, 1) on the array
Spliced(pend, index) ==
  [k \in DOMAIN pend |->
     [pend[k] EXCEPT !.index = IF @ = index THEN 0 ELSE IF @ > index THEN @ - 1 ELSE @]]

\* passwords[index] = a new object
Replaced(pend, index) ==
  [k \in DOMAIN pend |-> [pend[k] EXCEPT !.index = IF @ = index THEN 0 ELSE @]]

\* this.vault = a new vault
Dropped(pend) == [k \in DOMAIN pend |-> [pend[k] EXCEPT !.index = 0]]

(***************************************************************************)
(* The component's state passwords holds an array.  setPasswords with the  *)
(* result of getAllPasswords stores this.vault.passwords itself, which the *)
(* manager goes on changing in place; any other setPasswords stores a new  *)
(* array.  Once the manager replaces this.vault, the array the component   *)
(* holds is the one of the vault before, as it was then.                   *)
(***************************************************************************)
OwnArray(list) == [alias |-> FALSE, list |-> list]
VaultArray == [alias |-> TRUE, list |-> <<>>]

\* The array the state holds, read while the vault in memory is v.
ArrayOf(pw, v) == IF pw.alias THEN v.passwords ELSE pw.list

\* this.vault = another vault, or null
Detached(pw, v) == IF pw.alias THEN OwnArray(v.passwords) ELSE pw

\* What a call leaves for its caller: status and value; detail is what happened inside.
Called(op, id, status, value, detail) ==
  [op |-> op, id |-> id, status |-> status, value |-> value, detail |-> detail]

(***************************************************************************)
(* RealWalrusSealPasswordManager                                           *)
(***************************************************************************)
Init ==
  /\ now = 0
  /\ sdkInitialized \in BOOLEAN
  /\ currentWalletAddress = NoWallet
  /\ vault = NoVault
  /\ localStorage = [master |-> NoMaster, vaults |-> [w \in Wallets |-> NoItem],
                     keypairs |-> {}, passwords |-> NoItem, others |-> OtherKeys]
  /\ walrus = <<>>
  /\ walrusDeleted = {}
  /\ isUnlocked = FALSE
  /\ exportFile = NoItem
  /\ createdWith = [w \in Wallets |-> NoMaster]
  /\ exported = NoItem
  /\ t3WalletAddress = NoWallet
  /\ t3Vault = NoVault
  /\ t3Storage = [storage |-> EmptyMap, privacyLevels |-> EmptyMap]
  /\ t3ExportFile = NoItem
  /\ uiPasswords = OwnArray(<<>>)
  /\ tsx = [passwords |-> <<>>, isUnlocked |-> FALSE]
  /\ settled = NoItem
  /\ pending = <<>>
  /\ last = Called("new", "", "ok", "void", "none")

Tick ==
  /\ now < MaxTime
  /\ now' = now + 1
  /\ UNCHANGED <<sdkInitialized, currentWalletAddress, vault, localStorage,
                 walrus, walrusDeleted, isUnlocked, exportFile, createdWith, last, exported, t3Vars, tsxVars, uiPasswords, pending>>

\* loadVaultFromStorage: the vault read from the mirror of the address, null
\* when the catch block ran, or the vault in memory kept when the mirror has
\* no entry.
LoadVaultFromStorage(v, ls, wallet, sdk) ==
  IF wallet = NoWallet THEN v
  ELSE IF ls.vaults[wallet] = NoItem THEN v
  ELSE IF ls.vaults[wallet] = Unparseable THEN NoVault
  ELSE ParseVault(ls.vaults[wallet])

\* localStorage is shared by the origin: the entry of an address is replaced,
\* outside the manager, by a text the manager cannot read.
StorageDamaged(address) ==
  /\ localStorage.vaults[address] \notin {NoItem, Unparseable}
  /\ localStorage' = [localStorage EXCEPT !.vaults[address] = Unparseable]
  /\ last' = Called("storage", address, "ok", "void", "none")
  /\ UNCHANGED <<now, sdkInitialized, currentWalletAddress, vault, walrus, walrusDeleted,
                 isUnlocked, exportFile, createdWith, exported, t3Vars, tsxVars, uiPasswords, pending>>

SetWalletAddress(address) ==
  /\ currentWalletAddress' = address
  /\ localStorage' = [localStorage EXCEPT !.keypairs = @ \cup {address}]
  /\ vault' = LoadVaultFromStorage(vault, localStorage, address, sdkInitialized)
  /\ pending' = IF localStorage.vaults[address] # NoItem THEN Dropped(pending) ELSE pending
  /\ uiPasswords' = IF localStorage.vaults[address] # NoItem THEN Detached(uiPasswords, vault)
                  ELSE uiPasswords
  /\ last' = Called("setWalletAddress", address, "ok", "void", "none")
  /\ UNCHANGED <<now, sdkInitialized, walrus, walrusDeleted, isUnlocked, exportFile,
                 createdWith, exported, t3Vars, tsxVars>>

\* The entry createVault and addPassword build from the caller's entry.
NewEntry(p, genId, t) ==
  [p EXCEPT !.id = IF p.id = "" THEN genId ELSE p.id,
            !.createdAt = t, !.updatedAt = t, !.zkVerified = TRUE,
            !.privacyLevel = IF p.privacyLevel = "" THEN "private" ELSE p.privacyLevel]

\* createVault up to its return: the state [vault, walrus, ls] it leaves.
CreateVaultState(masterPassword, initialPasswords, oks) ==
  LET ls1 == StoreMasterPassword(localStorage, masterPassword)
      v0 == [kind |-> "vault", walletAddress |-> currentWalletAddress,
             passwords |-> [i \in 1..Len(initialPasswords) |->
                              NewEntry(initialPasswords[i], "", now)],
             walrusReferences |-> EmptyMap,
             entryCount |-> Len(initialPasswords)]
      st == IF sdkInitialized /\ Len(initialPasswords) > 0
            THEN StoreAll([vault |-> v0, walrus |-> walrus], 1, oks, sdkInitialized,
                          ls1, currentWalletAddress, now)
            ELSE [vault |-> v0, walrus |-> walrus]
  IN [vault |-> st.vault, walrus |-> st.walrus,
      ls |-> SaveVaultToStorage(ls1, st.vault, currentWalletAddress)]

StoredCount(oks) == Cardinality({i \in DOMAIN oks : oks[i]})

CreateVault(masterPassword, initialPasswords, oks) ==
  /\ IF currentWalletAddress = NoWallet
     THEN /\ last' = Called("createVault", masterPassword, "error", "Wallet address required", "none")
          /\ UNCHANGED <<vault, walrus, localStorage, createdWith, pending, uiPasswords>>
     ELSE LET st == CreateVaultState(masterPassword, initialPasswords, oks)
          IN /\ sdkInitialized => CanStore(StoredCount(oks))
             /\ vault' = st.vault
             /\ walrus' = st.walrus
             /\ localStorage' = st.ls
             /\ pending' = Dropped(pending)
             /\ uiPasswords' = Detached(uiPasswords, vault)
             /\ createdWith' = [createdWith EXCEPT ![currentWalletAddress] = masterPassword]
             /\ last' = Called("createVault", masterPassword, "ok", "vault", "none")
  /\ UNCHANGED <<now, sdkInitialized, currentWalletAddress, walrusDeleted, isUnlocked,
                 exportFile, exported, t3Vars, tsxVars>>

RemoteOutcome(ok) == IF ~sdkInitialized THEN "skipped" ELSE IF ok THEN "stored" ELSE "failed"

\* addPassword without the update of metadata.entryCount.
AddedVaultUncounted(v, newPassword) ==
  [v EXCEPT !.passwords = Append(v.passwords, newPassword)]

\* The vault after addPassword pushed the new entry and counted the entries.
AddedVault(v, newPassword) ==
  LET pushed == Append(v.passwords, newPassword)
  IN [v EXCEPT !.passwords = pushed, !.entryCount = Len(pushed)]

AddPassword(passwordEntry, genId, ok) ==
  /\ IF vault = NoVault \/ currentWalletAddress = NoWallet
     THEN /\ last' = Called("addPassword", passwordEntry.id, "error", "Vault not initialized", "none")
          /\ UNCHANGED <<vault, walrus, localStorage>>
     ELSE LET newPassword == NewEntry(passwordEntry, genId, now)
              v1 == AddedVault(vault, newPassword)
              pushed == v1.passwords
              st == StorePasswordInWalrus([vault |-> v1, walrus |-> walrus], Len(pushed), ok,
                                          sdkInitialized, localStorage, currentWalletAddress, now)
          IN /\ Len(vault.passwords) < MaxRecords
             /\ passwordEntry.id = "" => genId \notin Ids(vault.passwords)
             /\ (sdkInitialized /\ ok) => CanStore(1)
             /\ vault' = st.vault
             /\ walrus' = st.walrus
             /\ localStorage' = SaveVaultToStorage(localStorage, st.vault, currentWalletAddress)
             /\ last' = Called("addPassword", newPassword.id, "ok", "void", RemoteOutcome(ok))
  /\ UNCHANGED <<now, sdkInitialized, currentWalletAddress, walrusDeleted, isUnlocked,
                 exportFile, createdWith, exported, t3Vars, tsxVars, uiPasswords, pending>>

\* The entry updatePassword puts in place of the original one.
UpdatedEntry(passwordId, updatedPassword, originalPassword, t) ==
  [updatedPassword EXCEPT !.id = passwordId,
                          !.createdAt = originalPassword.createdAt,
                          !.updatedAt = t,
                          !.zkVerified = TRUE,
                          !.walrusId = originalPassword.walrusId]

UpdatePassword(passwordId, updatedPassword, ok) ==
  /\ IF vault = NoVault
     THEN /\ last' = Called("updatePassword", passwordId, "error", "Vault not initialized", "none")
          /\ UNCHANGED <<vault, walrus, localStorage>>
     ELSE LET index == FindIndex(vault.passwords, passwordId) IN
          IF index = 0
          THEN /\ last' = Called("updatePassword", passwordId, "error", "Password not found", "none")
               /\ UNCHANGED <<vault, walrus, localStorage>>
          ELSE LET v1 == [vault EXCEPT !.passwords[index] =
                            UpdatedEntry(passwordId, updatedPassword, vault.passwords[index], now)]
                   st == StorePasswordInWalrus([vault |-> v1, walrus |-> walrus], index, ok,
                                               sdkInitialized, localStorage,
                                               currentWalletAddress, now)
               IN /\ (sdkInitialized /\ ok) => CanStore(1)
                  /\ vault' = st.vault
                  /\ walrus' = st.walrus
                  /\ localStorage' = SaveVaultToStorage(localStorage, st.vault, currentWalletAddress)
                  /\ last' = Called("updatePassword", passwordId, "ok", "void", RemoteOutcome(ok))
  /\ UNCHANGED <<now, sdkInitialized, currentWalletAddress, walrusDeleted, isUnlocked,
                 exportFile, createdWith, exported, t3Vars, tsxVars, uiPasswords, pending>>

\* deletePassword without the delete of walrusReferences[passwordId].
DeletedVaultKeepingReference(v, index, passwordId) ==
  LET rest == Splice(v.passwords, index)
  IN [v EXCEPT !.passwords = rest, !.entryCount = Len(rest)]

\* The vault deletePassword leaves when the entry is at index.
DeletedVault(v, index, passwordId) ==
  LET rest == Splice(v.passwords, index)
  IN [v EXCEPT !.passwords = rest,
               !.walrusReferences = MapRemove(@, passwordId),
               !.entryCount = Len(rest)]

DeletePassword(passwordId, ok) ==
  /\ IF vault = NoVault
     THEN /\ last' = Called("deletePassword", passwordId, "error", "Vault not initialized", "none")
          /\ UNCHANGED <<vault, walrusDeleted, localStorage, pending>>
     ELSE LET index == FindIndex(vault.passwords, passwordId) IN
          IF index = 0
          THEN /\ last' = Called("deletePassword", passwordId, "ok", "void", "not found")
               /\ UNCHANGED <<vault, walrusDeleted, localStorage, pending>>
          ELSE LET password == vault.passwords[index]
                   remote == sdkInitialized /\ password.walrusId # 0
                   v1 == DeletedVault(vault, index, passwordId)
               IN /\ walrusDeleted' = IF remote /\ ok
                                      THEN walrusDeleted \cup {password.walrusId}
                                      ELSE walrusDeleted
                  /\ vault' = v1
                  /\ pending' = Spliced(pending, index)
                  /\ localStorage' = SaveVaultToStorage(localStorage, v1, currentWalletAddress)
                  /\ last' = Called("deletePassword", passwordId, "ok", "void",
                                    IF ~remote THEN "skipped"
                                    ELSE IF ok THEN "deleted" ELSE "failed")
  /\ UNCHANGED <<now, sdkInitialized, currentWalletAddress, walrus, isUnlocked,
                 exportFile, createdWith, exported, t3Vars, tsxVars, uiPasswords>>

(***************************************************************************)
(* addPassword and updatePassword as they run: up to the await of the      *)
(* remote store inside storePasswordInWalrus, and from there on when the   *)
(* store resolves or rejects.  Without the SDK nothing is awaited.         *)
(***************************************************************************)
AsyncFrame ==
  UNCHANGED <<now, sdkInitialized, currentWalletAddress, walrusDeleted, isUnlocked,
              exportFile, createdWith, exported, t3Vars, tsxVars, uiPasswords>>

AddPasswordCall(passwordEntry, genId) ==
  /\ IF vault = NoVault \/ currentWalletAddress = NoWallet
     THEN /\ last' = Called("addPassword", passwordEntry.id, "error", "Vault not initialized", "none")
          /\ UNCHANGED <<vault, localStorage, pending>>
     ELSE LET newPassword == NewEntry(passwordEntry, genId, now)
              v1 == AddedVault(vault, newPassword)
          IN /\ Len(vault.passwords) < MaxRecords
             /\ passwordEntry.id = "" => genId \notin Ids(vault.passwords)
             /\ vault' = v1
             /\ IF ~sdkInitialized
                THEN /\ localStorage' = SaveVaultToStorage(localStorage, v1, currentWalletAddress)
                     /\ pending' = pending
                     /\ last' = Called("addPassword", newPassword.id, "ok", "void", "skipped")
                ELSE /\ Len(pending) < MaxInFlight
                     /\ localStorage' = localStorage
                     /\ pending' = Append(pending,
                                          InFlight("addPassword", Len(v1.passwords),
                                                   CriticalData(newPassword, localStorage,
                                                                currentWalletAddress, now)))
                     /\ last' = Called("addPassword", newPassword.id, "pending", "promise",
                                       "in flight")
  /\ UNCHANGED walrus
  /\ AsyncFrame

UpdatePasswordCall(passwordId, updatedPassword) ==
  /\ IF vault = NoVault
     THEN /\ last' = Called("updatePassword", passwordId, "error", "Vault not initialized", "none")
          /\ UNCHANGED <<vault, localStorage, pending>>
     ELSE LET index == FindIndex(vault.passwords, passwordId) IN
          IF index = 0
          THEN /\ last' = Called("updatePassword", passwordId, "error", "Password not found", "none")
               /\ UNCHANGED <<vault, localStorage, pending>>
          ELSE LET entry == UpdatedEntry(passwordId, updatedPassword, vault.passwords[index], now)
                   v1 == [vault EXCEPT !.passwords[index] = entry]
               IN /\ vault' = v1
                  /\ IF ~sdkInitialized
                     THEN /\ localStorage' = SaveVaultToStorage(localStorage, v1,
                                                                currentWalletAddress)
                          /\ pending' = Replaced(pending, index)
                          /\ last' = Called("updatePassword", passwordId, "ok", "void", "skipped")
                     ELSE /\ Len(pending) < MaxInFlight
                          /\ localStorage' = localStorage
                          /\ pending' = Append(Replaced(pending, index),
                                               InFlight("updatePassword", index,
                                                        CriticalData(entry, localStorage,
                                                                     currentWalletAddress, now)))
                          /\ last' = Called("updatePassword", passwordId, "pending", "promise",
                                            "in flight")
  /\ UNCHANGED walrus
  /\ AsyncFrame

\* The remote store of pending[k] resolves (ok) or rejects: the rest of
\* storePasswordInWalrus, and of the addPassword or updatePassword that awaited it.
StoreSettles(k, ok) ==
  /\ k \in DOMAIN pending
  /\ ok => CanStore(1)
  /\ LET call == pending[k]
         storageId == Len(walrus) + 1
         ref == [walrusId |-> storageId, proofHash |-> storageId, storedAt |-> [date |-> now]]
         held == IF call.index = 0 THEN vault
                 ELSE [vault EXCEPT !.passwords[call.index].walrusId = storageId,
                                    !.passwords[call.index].proofHash = storageId]
         v1 == IF ~ok \/ vault = NoVault THEN vault
               ELSE [held EXCEPT !.walrusReferences = MapPut(@, call.data.id, ref)]
     IN /\ walrus' = IF ok THEN Append(walrus, call.data) ELSE walrus
        /\ vault' = v1
        /\ localStorage' = SaveVaultToStorage(localStorage, v1, currentWalletAddress)
        /\ pending' = Splice(pending, k)
        /\ last' = Called(call.op, call.data.id, "ok", "void", RemoteOutcome(ok))
  /\ AsyncFrame

\* getAllPasswords returning this.vault.passwords.reverse(): reversed in place.
GetAllPasswordsReversing ==
  /\ IF vault = NoVault
     THEN /\ last' = Called("getAllPasswords", "", "error", "Vault not initialized", "none")
          /\ vault' = vault
     ELSE LET reversed == [i \in 1..Len(vault.passwords) |->
                             vault.passwords[Len(vault.passwords) + 1 - i]]
          IN /\ vault' = [vault EXCEPT !.passwords = reversed]
             /\ last' = Called("getAllPasswords", "", "ok", reversed, "none")
  /\ UNCHANGED <<now, sdkInitialized, currentWalletAddress, localStorage, walrus,
                 walrusDeleted, isUnlocked, exportFile, createdWith, exported, t3Vars, tsxVars, uiPasswords, pending>>

GetAllPasswords ==
  /\ last' = IF vault = NoVault
             THEN Called("getAllPasswords", "", "error", "Vault not initialized", "none")
             ELSE Called("getAllPasswords", "", "ok", vault.passwords, "none")
  /\ UNCHANGED <<now, sdkInitialized, currentWalletAddress, vault, localStorage, walrus,
                 walrusDeleted, isUnlocked, exportFile, createdWith, exported, t3Vars, tsxVars, uiPasswords, pending>>

GetPassword(passwordId) ==
  /\ last' = IF vault = NoVault
             THEN Called("getPassword", passwordId, "error", "Vault not initialized", "none")
             ELSE LET index == FindIndex(vault.passwords, passwordId)
                  IN Called("getPassword", passwordId, "ok",
                            IF index = 0 THEN <<>> ELSE <<vault.passwords[index]>>, "none")
  /\ UNCHANGED <<now, sdkInitialized, currentWalletAddress, vault, localStorage, walrus,
                 walrusDeleted, isUnlocked, exportFile, createdWith, exported, t3Vars, tsxVars, uiPasswords, pending>>

\* getVaultMetadata: null without a vault.
VaultMetadata(v) ==
  IF v = NoVault THEN NoItem
  ELSE [kind |-> "metadata", walletAddress |-> v.walletAddress,
        passwordCount |-> v.entryCount,
        walrusReferences |-> Cardinality(DOMAIN v.walrusReferences)]

GetVaultMetadata ==
  /\ last' = Called("getVaultMetadata", "", "ok", VaultMetadata(vault), "none")
  /\ UNCHANGED <<now, sdkInitialized, currentWalletAddress, vault, localStorage, walrus,
                 walrusDeleted, isUnlocked, exportFile, createdWith, exported, t3Vars, tsxVars, uiPasswords, pending>>

\* validateMasterPassword: stores the password, then answers true.
ValidateMasterPasswordResult(v, masterPassword) ==
  IF v = NoVault THEN TRUE ELSE TRUE

ValidateMasterPassword(masterPassword) ==
  /\ localStorage' = StoreMasterPassword(localStorage, masterPassword)
  /\ last' = Called("validateMasterPassword", masterPassword, "ok",
                    ValidateMasterPasswordResult(vault, masterPassword), "none")
  /\ UNCHANGED <<now, sdkInitialized, currentWalletAddress, vault, walrus, walrusDeleted,
                 isUnlocked, exportFile, createdWith, exported, t3Vars, tsxVars, uiPasswords, pending>>

(***************************************************************************)
(* Export and import.  PBKDF2 and AES-256-CBC are modelled by what they    *)
(* guarantee: a key is determined by password and salt, and a ciphertext   *)
(* decrypts only under the key and iv it was made with.                    *)
(***************************************************************************)
Salts == {"salt1", "salt2"}
IVs == {"iv1"}

PBKDF2(password, salt) == [password |-> password, salt |-> salt]
AESEncrypt(plain, key, iv) == [key |-> key, iv |-> iv, plain |-> plain]
AESDecrypt(cipher, key, iv) ==
  IF cipher.key = key /\ cipher.iv = iv
  THEN [ok |-> TRUE, plain |-> cipher.plain]
  ELSE [ok |-> FALSE]

EncryptForExport(data, masterPassword, salt, iv) ==
  [algorithm |-> "AES-256-CBC", salt |-> salt, iv |-> iv,
   encrypted |-> AESEncrypt(data, PBKDF2(masterPassword, salt), iv)]

\* decryptFromImport: the plaintext, or a throw (ok FALSE).
DecryptFromImport(encryptedData, masterPassword) ==
  IF encryptedData.algorithm = "AES-256-CBC"
  THEN AESDecrypt(encryptedData.encrypted,
                  PBKDF2(masterPassword, encryptedData.salt), encryptedData.iv)
  ELSE IF encryptedData.algorithm = "base64"
  THEN [ok |-> TRUE, plain |-> encryptedData.plain]
  ELSE [ok |-> FALSE]

ExportedEntry(password, masterPassword, salt, iv) ==
  LET sensitiveData == [password |-> password.password, notes |-> password.notes]
      out == [password EXCEPT !.password = Sentinel, !.notes = Sentinel]
  IN MapPut(StringifyEntry(out), "encryptedData",
            EncryptForExport(sensitiveData, masterPassword, salt, iv))

ExportData(v, masterPassword, salts, ivs) ==
  [kind |-> "export",
   vault |-> [walletAddress |-> v.walletAddress,
              passwords |-> [i \in 1..Len(v.passwords) |->
                               ExportedEntry(v.passwords[i], masterPassword, salts[i], ivs[i])],
              walrusReferences |-> StringifyReferences(v.walrusReferences),
              metadata |-> [entryCount |-> v.entryCount]],
   encryptionInfo |-> [algorithm |-> "AES-256-CBC", keyDerivation |-> "PBKDF2",
                       sensitiveFields |-> {"password", "notes"},
                       requiresMasterPassword |-> TRUE]]

ExportVault(salts, ivs) ==
  /\ IF vault = NoVault
     THEN /\ last' = Called("exportVault", "", "error", "Vault not initialized", "none")
          /\ UNCHANGED <<exportFile, exported>>
     ELSE /\ DOMAIN salts = 1..Len(vault.passwords)
          /\ DOMAIN ivs = 1..Len(vault.passwords)
          /\ exportFile' = ExportData(vault, GetMasterPassword(localStorage), salts, ivs)
          /\ exported' = [kind |-> "exported", passwords |-> vault.passwords,
                           walrusReferences |-> vault.walrusReferences,
                           masterPassword |-> GetMasterPassword(localStorage)]
          /\ last' = Called("exportVault", "", "ok", "file", "none")
  /\ UNCHANGED <<now, sdkInitialized, currentWalletAddress, vault, localStorage, walrus,
                 walrusDeleted, isUnlocked, createdWith, t3Vars, tsxVars, uiPasswords, pending>>

\* importVault without the decryption of encryptedData.
ImportedEntryUndecrypted(p, masterPassword) == ReviveEntry(p)

\* The entry importVault builds from an entry of the file.
ImportedEntry(p, masterPassword) ==
  LET password == ReviveEntry(p) IN
  IF HasField(p, "encryptedData") /\ (p.password = Sentinel \/ p.notes = Sentinel)
  THEN LET decryptedSensitive == DecryptFromImport(p.encryptedData, masterPassword)
       IN IF decryptedSensitive.ok
          THEN MapRemove([password EXCEPT !.password = decryptedSensitive.plain.password,
                                          !.notes = decryptedSensitive.plain.notes],
                         "encryptedData")
          ELSE password
  ELSE password

ImportedVault(data, masterPassword) ==
  [kind |-> "vault", walletAddress |-> data.vault.walletAddress,
   passwords |-> [i \in 1..Len(data.vault.passwords) |->
                    ImportedEntry(data.vault.passwords[i], masterPassword)],
   walrusReferences |-> data.vault.walrusReferences,
   entryCount |-> data.vault.metadata.entryCount]

\* importVault without the comparison of wallet addresses.
WalletAddressNeverMismatch(data, wallet) == FALSE

WalletAddressMismatch(data, wallet) == data.vault.walletAddress # wallet

Garbage == [kind |-> "garbage"]

ImportVault(vaultData) ==
  /\ IF vaultData.kind # "export"
     THEN /\ last' = Called("importVault", "", "error", "SyntaxError", "none")
          /\ UNCHANGED <<vault, localStorage, uiPasswords>>
     ELSE IF WalletAddressMismatch(vaultData, currentWalletAddress)
     THEN /\ last' = Called("importVault", vaultData.vault.walletAddress, "error",
                            "Wallet address mismatch",
                            [ownExport |-> vaultData = exportFile, replaced |-> "none"])
          /\ UNCHANGED <<vault, localStorage, uiPasswords>>
     ELSE LET v1 == ImportedVault(vaultData, GetMasterPassword(localStorage))
          IN /\ vault' = v1
             /\ uiPasswords' = Detached(uiPasswords, vault)
             /\ localStorage' = SaveVaultToStorage(localStorage, v1, currentWalletAddress)
             /\ last' = Called("importVault", vaultData.vault.walletAddress, "ok", "void",
                               [ownExport |-> vaultData = exportFile,
                                replaced |-> IF vault = NoVault THEN "none"
                                             ELSE IF vault.passwords = <<>> THEN "fresh"
                                             ELSE "filled"])
  /\ UNCHANGED <<now, sdkInitialized, currentWalletAddress, walrus, walrusDeleted,
                 isUnlocked, exportFile, createdWith, exported, t3Vars, tsxVars, pending>>

(***************************************************************************)
(* The PasswordManager component (unnamed/part_002) over the manager.      *)
(***************************************************************************)
SampleEntry(id, title, password, notes, category, created) ==
  [id |-> id, title |-> title, password |-> password, notes |-> notes,
   category |-> category, createdAt |-> created, updatedAt |-> created,
   zkVerified |-> FALSE, privacyLevel |-> "", proofHash |-> 0, walrusId |-> 0]

SamplePasswords ==
  << SampleEntry("sample-1", "Gmail Account", "securePassword123!", "Main email account",
                 "Personal", 0),
     SampleEntry("sample-2", "GitHub", "githubSecure456!", "Code repository access",
                 "Work", 0),
     SampleEntry("sample-3", "Bank of America", "bankSecure789!", "Primary bank account",
                 "Banking", 0) >>

MinMasterLength == 3

HandleUnlock(masterPassword, oks) ==
  /\ ~isUnlocked
  /\ IF Len(masterPassword) < MinMasterLength
     THEN /\ last' = Called("handleUnlock", masterPassword, "error", "Weak Password", "none")
          /\ UNCHANGED <<now, sdkInitialized, currentWalletAddress, vault, localStorage, walrus,
                         walrusDeleted, isUnlocked, exportFile, createdWith, exported, t3Vars, tsxVars, uiPasswords, pending>>
     ELSE IF vault = NoVault
     THEN IF currentWalletAddress = NoWallet
          THEN /\ last' = Called("handleUnlock", masterPassword, "error", "Unlock Failed", "none")
               /\ UNCHANGED <<now, sdkInitialized, currentWalletAddress, vault, localStorage,
                              walrus, walrusDeleted, isUnlocked, exportFile, createdWith, exported, t3Vars, tsxVars, uiPasswords, pending>>
          ELSE LET st == CreateVaultState(masterPassword, SamplePasswords, oks)
               IN /\ sdkInitialized => CanStore(StoredCount(oks))
                  /\ vault' = st.vault
                  /\ walrus' = st.walrus
                  /\ localStorage' = st.ls
                  /\ createdWith' = [createdWith EXCEPT ![currentWalletAddress] = masterPassword]
                  /\ isUnlocked' = TRUE
                  /\ uiPasswords' = OwnArray(SamplePasswords)
                  /\ last' = Called("handleUnlock", masterPassword, "ok", "created", "none")
                  /\ UNCHANGED <<now, sdkInitialized, currentWalletAddress, walrusDeleted,
                                 exportFile, exported, t3Vars, tsxVars, pending>>
     ELSE /\ localStorage' = StoreMasterPassword(localStorage, masterPassword)
          /\ IF ValidateMasterPasswordResult(vault, masterPassword)
             THEN /\ isUnlocked' = TRUE
                  /\ uiPasswords' = VaultArray
                  /\ last' = Called("handleUnlock", masterPassword, "ok", "validated", "none")
             ELSE /\ isUnlocked' = isUnlocked
                  /\ uiPasswords' = uiPasswords
                  /\ last' = Called("handleUnlock", masterPassword, "error",
                                    "Incorrect Password", "none")
          /\ UNCHANGED <<now, sdkInitialized, currentWalletAddress, vault, walrus,
                         walrusDeleted, exportFile, createdWith, exported, t3Vars, tsxVars, pending>>

HandleLock ==
  /\ isUnlocked
  /\ isUnlocked' = FALSE
  /\ last' = Called("handleLock", "", "ok", "void", "none")
  /\ UNCHANGED <<now, sdkInitialized, currentWalletAddress, vault, localStorage, walrus,
                 walrusDeleted, exportFile, createdWith, exported, t3Vars, tsxVars, uiPasswords, pending>>

(***************************************************************************)
(* Reset.  resetAndCreateNewVault removes every localStorage key that      *)
(* starts with fraudguard-, emergencyClearAndStartFresh removes every key; *)
(* both drop the vault in memory and then run createVault with two entries *)
(* of their own, whose ids carry Date.now().                               *)
(***************************************************************************)
RemoveFraudguardKeys(ls) ==
  [ls EXCEPT !.master = NoMaster, !.vaults = [w \in Wallets |-> NoItem], !.keypairs = {},
             !.passwords = NoItem]

Clear(ls) == [RemoveFraudguardKeys(ls) EXCEPT !.others = {}]

ResetSamplePasswords(t) ==
  << [SampleEntry("sample-" \o ToString(t) \o "-1", "Gmail Account", "SecurePassword123!",
                  "Main email account", "General", t)
        EXCEPT !.zkVerified = TRUE, !.privacyLevel = "private"],
     [SampleEntry("sample-" \o ToString(t) \o "-2", "GitHub", "GitHubPass456!",
                  "Code repository access", "Work", t)
        EXCEPT !.zkVerified = TRUE, !.privacyLevel = "private"] >>

FreshPasswords(t) ==
  << [SampleEntry("fresh-" \o ToString(t) \o "-1", "Welcome to FraudGuard", "Welcome123!",
                  "Your fresh password vault is ready", "General", t)
        EXCEPT !.zkVerified = TRUE, !.privacyLevel = "private"],
     [SampleEntry("fresh-" \o ToString(t) \o "-2", "Sample Account", "DemoPassword456!",
                  "This is a sample password entry", "General", t)
        EXCEPT !.zkVerified = TRUE, !.privacyLevel = "private"] >>

\* The common course of the two resets: storage cleared to cleared, the vault
\* dropped, createVault run with the entries given.
ClearAndCreate(op, cleared, masterPassword, entries, oks) ==
  /\ IF currentWalletAddress = NoWallet
     THEN /\ vault' = NoVault
          /\ localStorage' = cleared
          /\ walrus' = walrus
          /\ createdWith' = createdWith
          /\ last' = Called(op, masterPassword, "error", "Wallet address required", "none")
     ELSE LET v0 == [kind |-> "vault", walletAddress |-> currentWalletAddress,
                     passwords |-> [i \in 1..Len(entries) |-> NewEntry(entries[i], "", now)],
                     walrusReferences |-> EmptyMap,
                     entryCount |-> Len(entries)]
              ls1 == StoreMasterPassword(cleared, masterPassword)
              st == IF sdkInitialized
                    THEN StoreAll([vault |-> v0, walrus |-> walrus], 1, oks, sdkInitialized,
                                  ls1, currentWalletAddress, now)
                    ELSE [vault |-> v0, walrus |-> walrus]
          IN /\ sdkInitialized => CanStore(StoredCount(oks))
             /\ vault' = st.vault
             /\ walrus' = st.walrus
             /\ localStorage' = SaveVaultToStorage(ls1, st.vault, currentWalletAddress)
             /\ createdWith' = [createdWith EXCEPT ![currentWalletAddress] = masterPassword]
             /\ last' = Called(op, masterPassword, "ok", "vault", "none")
  /\ pending' = Dropped(pending)
  /\ uiPasswords' = Detached(uiPasswords, vault)
  /\ UNCHANGED <<now, sdkInitialized, currentWalletAddress, walrusDeleted, isUnlocked,
                 exportFile, exported, t3Vars, tsxVars>>

ResetAndCreateNewVault(masterPassword, oks) ==
  ClearAndCreate("resetAndCreateNewVault", RemoveFraudguardKeys(localStorage),
                 masterPassword, ResetSamplePasswords(now), oks)

EmergencyClearAndStartFresh(masterPassword, oks) ==
  ClearAndCreate("emergencyClearAndStartFresh", Clear(localStorage),
                 masterPassword, FreshPasswords(now), oks)

\* The methods of RealWalrusSealPasswordManager a caller can name.
ManagerMethods ==
  {"getInstance", "setWalletAddress", "createVault", "addPassword", "updatePassword",
   "deletePassword", "getAllPasswords", "getPassword", "validateMasterPassword",
   "getVaultMetadata", "exportVault", "importVault", "resetAndCreateNewVault",
   "emergencyClearAndStartFresh", "generateSecurePassword", "checkPasswordStrength",
   "storeInWalrus", "generateSealProof", "getWalrusStatus", "validateExportEncryption",
   "loadVaultFromStorage", "saveVaultToStorage", "storeMasterPassword",
   "getMasterPassword", "storePasswordInWalrus", "generateVerificationKey",
   "encryptForExport", "decryptFromImport"}

\* The component's reset handlers, on buttons of the unlock form: after
\* confirm() they call the method named
\* on the manager; a name the manager does not have is undefined, the call
\* throws a TypeError inside the try, and the catch shows the failure toast
\* before any of the component's state is set.
ComponentReset(handler, method, confirmed) ==
  /\ ~isUnlocked
  /\ IF ~confirmed
     THEN last' = Called(handler, method, "ok", "void", "cancelled")
     ELSE IF method \notin ManagerMethods
     THEN last' = Called(handler, method, "error", "Reset Failed", "TypeError")
     ELSE FALSE
  /\ UNCHANGED <<now, sdkInitialized, currentWalletAddress, vault, localStorage, walrus,
                 walrusDeleted, isUnlocked, exportFile, createdWith, exported, t3Vars, tsxVars, uiPasswords, pending>>

ResetMasterPassword(confirmed) == ComponentReset("resetMasterPassword", "resetVault", confirmed)

ForceResetVault(confirmed) == ComponentReset("forceResetVault", "forceResetVault", confirmed)

(***************************************************************************)
(* The component's handlers on the list: each calls the manager and, when  *)
(* the call did not throw, sets the state passwords from the state before. *)
(* The list dialogs and buttons exist while the component is unlocked.     *)
(***************************************************************************)
ComponentFrame ==
  UNCHANGED <<now, sdkInitialized, currentWalletAddress, isUnlocked, createdWith,
              t3Vars, tsxVars, pending>>

\* The list the component shows.
ShownPasswords == ArrayOf(uiPasswords, vault)

\* addPassword of the add dialog; the id is Date.now().toString(), and two
\* adds are more than a millisecond apart.
ComponentAddPassword(title, password, ok) ==
  /\ isUnlocked
  /\ IF title = "" \/ password = ""
     THEN /\ last' = Called("component.addPassword", "", "error", "Missing Information", "none")
          /\ UNCHANGED <<vault, walrus, localStorage, uiPasswords>>
     ELSE IF vault = NoVault \/ currentWalletAddress = NoWallet
     THEN /\ last' = Called("component.addPassword", ToString(now), "error",
                            "Add Password Failed", "Vault not initialized")
          /\ UNCHANGED <<vault, walrus, localStorage, uiPasswords>>
     ELSE LET passwordEntry == Entry(ToString(now), title, password, "", "General", "", now, now)
              newPassword == NewEntry(passwordEntry, "", now)
              v1 == AddedVault(vault, newPassword)
              st == StorePasswordInWalrus([vault |-> v1, walrus |-> walrus],
                                          Len(v1.passwords), ok, sdkInitialized,
                                          localStorage, currentWalletAddress, now)
          IN /\ Len(vault.passwords) < MaxShown
             /\ ToString(now) \notin Ids(vault.passwords) \cup Ids(ShownPasswords)
             /\ (sdkInitialized /\ ok) => CanStore(1)
             /\ vault' = st.vault
             /\ walrus' = st.walrus
             /\ localStorage' = SaveVaultToStorage(localStorage, st.vault, currentWalletAddress)
             /\ uiPasswords' = OwnArray(Append(ArrayOf(uiPasswords, st.vault), passwordEntry))
             /\ last' = Called("component.addPassword", ToString(now), "ok", "void",
                               RemoteOutcome(ok))
  /\ UNCHANGED <<walrusDeleted, exportFile, exported>>
  /\ ComponentFrame

\* editPassword of the edit dialog, opened on the entry at place i of the list.
ComponentEditPassword(i, title, ok) ==
  /\ isUnlocked
  /\ i \in 1..Len(ShownPasswords)
  /\ LET editingPassword == ShownPasswords[i]
         updatedPassword == [editingPassword EXCEPT !.title = title, !.updatedAt = now]
         index == IF vault = NoVault THEN 0 ELSE FindIndex(vault.passwords, editingPassword.id)
     IN IF title = ""
        THEN /\ last' = Called("component.editPassword", editingPassword.id, "error",
                               "Missing Information", "none")
             /\ UNCHANGED <<vault, walrus, localStorage, uiPasswords>>
        ELSE IF index = 0
        THEN /\ last' = Called("component.editPassword", editingPassword.id, "error",
                               "Update Password Failed",
                               IF vault = NoVault THEN "Vault not initialized"
                               ELSE "Password not found")
             /\ UNCHANGED <<vault, walrus, localStorage, uiPasswords>>
        ELSE LET v1 == [vault EXCEPT !.passwords[index] =
                          UpdatedEntry(editingPassword.id, updatedPassword,
                                       vault.passwords[index], now)]
                 st == StorePasswordInWalrus([vault |-> v1, walrus |-> walrus], index, ok,
                                             sdkInitialized, localStorage,
                                             currentWalletAddress, now)
                 prev == ArrayOf(uiPasswords, st.vault)
             IN /\ (sdkInitialized /\ ok) => CanStore(1)
                /\ vault' = st.vault
                /\ walrus' = st.walrus
                /\ localStorage' = SaveVaultToStorage(localStorage, st.vault,
                                                      currentWalletAddress)
                /\ uiPasswords' = OwnArray([k \in 1..Len(prev) |->
                                              IF prev[k].id = editingPassword.id
                                              THEN updatedPassword ELSE prev[k]])
                /\ last' = Called("component.editPassword", editingPassword.id, "ok", "void",
                                  RemoteOutcome(ok))
  /\ UNCHANGED <<walrusDeleted, exportFile, exported>>
  /\ ComponentFrame

\* deletePassword of the button on the entry at place i of the list.
ComponentDeletePassword(i, ok) ==
  /\ isUnlocked
  /\ i \in 1..Len(ShownPasswords)
  /\ LET id == ShownPasswords[i].id
         index == IF vault = NoVault THEN 0 ELSE FindIndex(vault.passwords, id)
     IN IF vault = NoVault
        THEN /\ last' = Called("component.deletePassword", id, "error",
                               "Delete Password Failed", "Vault not initialized")
             /\ UNCHANGED <<vault, walrusDeleted, localStorage, uiPasswords>>
        ELSE LET password == vault.passwords[index]
                 remote == index # 0 /\ sdkInitialized /\ password.walrusId # 0
                 v1 == IF index = 0 THEN vault ELSE DeletedVault(vault, index, id)
             IN /\ walrusDeleted' = IF remote /\ ok
                                    THEN walrusDeleted \cup {password.walrusId}
                                    ELSE walrusDeleted
                /\ vault' = v1
                /\ localStorage' = IF index = 0 THEN localStorage
                                   ELSE SaveVaultToStorage(localStorage, v1,
                                                           currentWalletAddress)
                /\ uiPasswords' = OwnArray(SelectSeq(ArrayOf(uiPasswords, v1),
                                                     LAMBDA p : p.id # id))
                /\ last' = Called("component.deletePassword", id, "ok", "void",
                                  IF index = 0 THEN "not found"
                                  ELSE IF ~remote THEN "skipped"
                                  ELSE IF ok THEN "deleted" ELSE "failed")
  /\ UNCHANGED <<walrus, exportFile, exported>>
  /\ ComponentFrame

\* importVault of the file input: the manager's importVault, then the list
\* set to what getAllPasswords returns.
ComponentImportVault(vaultData) ==
  /\ isUnlocked
  /\ IF vaultData.kind # "export"
     THEN /\ last' = Called("component.importVault", "", "error", "Import Failed",
                            "SyntaxError")
          /\ UNCHANGED <<vault, localStorage, uiPasswords>>
     ELSE IF WalletAddressMismatch(vaultData, currentWalletAddress)
     THEN /\ last' = Called("component.importVault", vaultData.vault.walletAddress, "error",
                            "Import Failed", "Wallet address mismatch")
          /\ UNCHANGED <<vault, localStorage, uiPasswords>>
     ELSE LET v1 == ImportedVault(vaultData, GetMasterPassword(localStorage))
          IN /\ vault' = v1
             /\ localStorage' = SaveVaultToStorage(localStorage, v1, currentWalletAddress)
             /\ uiPasswords' = VaultArray
             /\ last' = Called("component.importVault", vaultData.vault.walletAddress, "ok",
                               "void", "none")
  /\ UNCHANGED <<walrus, walrusDeleted, exportFile, exported>>
  /\ ComponentFrame

(***************************************************************************)
(* The component of frontend/src/components/PasswordManager.tsx, which     *)
(* keeps its list in React state and in localStorage under the key         *)
(* fraudguard-passwords.  A Date is [date |-> t]; JSON.stringify turns it  *)
(* into its ISO string, which the component reads back without new Date.   *)
(* The manager of walrus-seal.ts the component also calls keeps state in   *)
(* memory only, which the component never reads back.                      *)
(***************************************************************************)
TsxEntry(id, title, password, category, t) ==
  [id |-> id, title |-> title, password |-> password, category |-> category,
   createdAt |-> [date |-> t], updatedAt |-> [date |-> t], zkVerified |-> TRUE]

TsxSamplePasswords ==
  << TsxEntry("sample-1", "Gmail Account", "securePassword123!", "Personal", 0),
     TsxEntry("sample-2", "GitHub", "githubSecure456!", "Work", 0),
     TsxEntry("sample-3", "Bank of America", "bankSecure789!", "Banking", 0) >>

StringifyDate(d) == IF HasField(d, "date") THEN ToISOString(d.date) ELSE d

TsxStringify(passwords) ==
  [kind |-> "json",
   passwords |-> [i \in 1..Len(passwords) |->
                    [passwords[i] EXCEPT !.createdAt = StringifyDate(@),
                                         !.updatedAt = StringifyDate(@)]]]

TsxParse(storedPasswords) == storedPasswords.passwords

\* The effects after a render, until no effect sets state again.  st is
\* [passwords, isUnlocked, stored]; the flags say which dependencies changed
\* since the render before.  In the order of the code: load when isUnlocked
\* changed; save when passwords or isUnlocked changed; load the samples when
\* isUnlocked or passwords.length changed.  Of two setPasswords in one pass
\* the later wins.
RECURSIVE Effects(_, _, _, _)
Effects(st, unlockedChanged, passwordsChanged, lengthChanged) ==
  LET loads == unlockedChanged /\ st.isUnlocked
      loaded == IF st.stored # NoItem THEN TsxParse(st.stored) ELSE <<>>
      saves == (passwordsChanged \/ unlockedChanged) /\ st.isUnlocked
                 /\ Len(st.passwords) > 0
      stored == IF saves THEN TsxStringify(st.passwords) ELSE st.stored
      samples == (unlockedChanged \/ lengthChanged) /\ st.isUnlocked
                   /\ Len(st.passwords) = 0 /\ stored = NoItem
      next == IF samples THEN TsxSamplePasswords ELSE loaded
  IN IF ~(loads \/ samples) THEN [st EXCEPT !.stored = stored]
     ELSE Effects([st EXCEPT !.passwords = next, !.stored = stored],
                  FALSE, TRUE, Len(next) # Len(st.passwords))

\* A handler set the state to [passwords, isUnlocked]: the render and its effects.
\* passwordsSet says that the handler called setPasswords, with a new array.
TsxRendered(passwords, unlocked, ls, passwordsSet) ==
  Effects([passwords |-> passwords, isUnlocked |-> unlocked, stored |-> ls.passwords],
          unlocked # tsx.isUnlocked, passwordsSet, Len(passwords) # Len(tsx.passwords))

TsxFrame ==
  UNCHANGED <<now, sdkInitialized, currentWalletAddress, vault, walrus, walrusDeleted,
              isUnlocked, exportFile, createdWith, exported, t3Vars, pending, uiPasswords>>

TsxHandleUnlock(masterPassword) ==
  /\ ~tsx.isUnlocked
  /\ IF Len(masterPassword) < MinMasterLength
     THEN /\ last' = Called("tsx.handleUnlock", masterPassword, "error", "Weak Password", "none")
          /\ UNCHANGED <<tsx, localStorage>>
     ELSE IF localStorage.master # NoMaster /\ masterPassword # localStorage.master
     THEN /\ last' = Called("tsx.handleUnlock", masterPassword, "error",
                            "Incorrect Password", "none")
          /\ UNCHANGED <<tsx, localStorage>>
     ELSE LET ls1 == IF localStorage.master = NoMaster
                     THEN StoreMasterPassword(localStorage, masterPassword)
                     ELSE localStorage
              r == TsxRendered(tsx.passwords, TRUE, ls1, FALSE)
          IN /\ tsx' = [passwords |-> r.passwords, isUnlocked |-> TRUE]
             /\ localStorage' = [ls1 EXCEPT !.passwords = r.stored]
             /\ last' = Called("tsx.handleUnlock", masterPassword, "ok", "void", "none")
  /\ UNCHANGED settled
  /\ TsxFrame

TsxHandleLock ==
  /\ tsx.isUnlocked
  /\ LET r == TsxRendered(tsx.passwords, FALSE, localStorage, FALSE)
     IN /\ tsx' = [passwords |-> r.passwords, isUnlocked |-> FALSE]
        /\ localStorage' = [localStorage EXCEPT !.passwords = r.stored]
  /\ last' = Called("tsx.handleLock", "", "ok", "void", "none")
  /\ UNCHANGED settled
  /\ TsxFrame

\* A change of the list by a handler: the list set, rendered and recorded.
TsxChanged(op, id, passwords) ==
  LET r == TsxRendered(passwords, tsx.isUnlocked, localStorage, TRUE)
  IN /\ tsx' = [tsx EXCEPT !.passwords = r.passwords]
     /\ localStorage' = [localStorage EXCEPT !.passwords = r.stored]
     /\ settled' = [kind |-> "list", passwords |-> r.passwords]
     /\ last' = Called(op, id, "ok", "void", "none")

TsxIds == {tsx.passwords[i].id : i \in 1..Len(tsx.passwords)}

\* addPassword of the add dialog; the id is Date.now().toString(), and two
\* adds are more than a millisecond apart.
TsxAddPassword(title, password, category) ==
  /\ tsx.isUnlocked
  /\ Len(tsx.passwords) < MaxShown
  /\ ToString(now) \notin TsxIds
  /\ IF title = "" \/ password = ""
     THEN /\ last' = Called("tsx.addPassword", "", "error", "Missing Information", "none")
          /\ UNCHANGED <<tsx, localStorage, settled>>
     ELSE TsxChanged("tsx.addPassword", ToString(now),
                     Append(tsx.passwords,
                            TsxEntry(ToString(now), title, password, category, now)))
  /\ TsxFrame

\* editPassword of the edit dialog, opened on an entry of the list.
TsxEditPassword(id, title) ==
  /\ tsx.isUnlocked
  /\ id \in TsxIds
  /\ IF title = ""
     THEN /\ last' = Called("tsx.editPassword", id, "error", "Missing Information", "none")
          /\ UNCHANGED <<tsx, localStorage, settled>>
     ELSE TsxChanged("tsx.editPassword", id,
                     [i \in 1..Len(tsx.passwords) |->
                        IF tsx.passwords[i].id = id
                        THEN [tsx.passwords[i] EXCEPT !.title = title,
                                                      !.updatedAt = [date |-> now]]
                        ELSE tsx.passwords[i]])
  /\ TsxFrame

\* deletePassword of the button on an entry of the list.
TsxDeletePassword(id) ==
  /\ tsx.isUnlocked
  /\ id \in TsxIds
  /\ TsxChanged("tsx.deletePassword", id, SelectSeq(tsx.passwords, LAMBDA p : p.id # id))
  /\ TsxFrame

\* resetMasterPassword, on a button of the unlock form: after confirm() it
\* removes the keys fraudguard-passwords and fraudguard-master-password and
\* empties the list.
TsxResetMasterPassword(confirmed) ==
  /\ ~tsx.isUnlocked
  /\ IF ~confirmed
     THEN /\ last' = Called("tsx.resetMasterPassword", "", "ok", "void", "cancelled")
          /\ UNCHANGED <<tsx, localStorage, settled>>
     ELSE LET ls1 == [localStorage EXCEPT !.passwords = NoItem, !.master = NoMaster]
              r == TsxRendered(<<>>, FALSE, ls1, TRUE)
          IN /\ tsx' = [passwords |-> r.passwords, isUnlocked |-> FALSE]
             /\ localStorage' = [ls1 EXCEPT !.passwords = r.stored]
             /\ settled' = NoItem
             /\ last' = Called("tsx.resetMasterPassword", "", "ok", "void", "confirmed")
  /\ TsxFrame

\* A reload of the page: the component mounts again with its initial state.
TsxReload ==
  /\ tsx' = [passwords |-> <<>>, isUnlocked |-> FALSE]
  /\ last' = Called("tsx.reload", "", "ok", "void", "none")
  /\ UNCHANGED <<localStorage, settled>>
  /\ TsxFrame

(***************************************************************************)
(* checkPasswordStrength.  A password is the sequence of its characters;   *)
(* a character class of a regular expression is the set of its characters. *)
(***************************************************************************)
LowerAZ == {"a", "b", "c", "d", "e", "f", "g", "h", "i", "j", "k", "l", "m",
            "n", "o", "p", "q", "r", "s", "t", "u", "v", "w", "x", "y", "z"}
UpperAZ == {"A", "B", "C", "D", "E", "F", "G", "H", "I", "J", "K", "L", "M",
            "N", "O", "P", "Q", "R", "S", "T", "U", "V", "W", "X", "Y", "Z"}
Digits09 == {"0", "1", "2", "3", "4", "5", "6", "7", "8", "9"}

\* /[class]/.test(password) and /[^class]/.test(password)
Test(class, password) == \E i \in 1..Len(password) : password[i] \in class
TestNot(class, password) == \E i \in 1..Len(password) : password[i] \notin class

\* The five checks that push feedback when they fail, in the order of the code.
BasicChecks(password) ==
  << [ok |-> Len(password) >= 8,
      feedback |-> "Password should be at least 8 characters long"],
     [ok |-> Test(LowerAZ, password), feedback |-> "Include lowercase letters"],
     [ok |-> Test(UpperAZ, password), feedback |-> "Include uppercase letters"],
     [ok |-> Test(Digits09, password), feedback |-> "Include numbers"],
     [ok |-> TestNot(UpperAZ \cup LowerAZ \cup Digits09, password),
      feedback |-> "Include special characters"] >>

RECURSIVE Feedback(_, _)
Feedback(checks, i) ==
  IF i > Len(checks) THEN <<>>
  ELSE (IF checks[i].ok THEN <<>> ELSE <<checks[i].feedback>>) \o Feedback(checks, i + 1)

RECURSIVE Score(_, _)
Score(checks, i) ==
  IF i > Len(checks) THEN 0
  ELSE (IF checks[i].ok THEN 1 ELSE 0) + Score(checks, i + 1)

\* A checker with a fourth length threshold: eight checks, one point each.
CheckPasswordStrengthEightChecks(password) ==
  LET checks == BasicChecks(password)
      score == Score(checks, 1) + (IF Len(password) >= 12 THEN 1 ELSE 0)
                                + (IF Len(password) >= 14 THEN 1 ELSE 0)
                                + (IF Len(password) >= 16 THEN 1 ELSE 0)
  IN [feedback |-> Feedback(checks, 1), score |-> score,
      strength |-> IF score <= 3 THEN "weak"
                   ELSE IF score <= 5 THEN "medium"
                   ELSE IF score <= 7 THEN "strong"
                   ELSE "very-strong"]

\* walrus-seal-real.ts, walrus-seal-track3.ts and unnamed/part_000.
CheckPasswordStrength(password) ==
  LET checks == BasicChecks(password)
      score == Score(checks, 1) + (IF Len(password) >= 12 THEN 1 ELSE 0)
                                + (IF Len(password) >= 16 THEN 1 ELSE 0)
  IN [feedback |-> Feedback(checks, 1), score |-> score,
      strength |-> IF score <= 3 THEN "weak"
                   ELSE IF score <= 5 THEN "medium"
                   ELSE IF score <= 7 THEN "strong"
                   ELSE "very-strong"]

\* walrus-seal.ts, the manager PasswordManager.tsx imports.
WalrusSealCheckPasswordStrength(password) ==
  LET checks == BasicChecks(password)
      score == Score(checks, 1)
  IN [feedback |-> Feedback(checks, 1), score |-> score,
      strength |-> IF score <= 2 THEN "weak"
                   ELSE IF score <= 3 THEN "medium"
                   ELSE IF score <= 4 THEN "strong"
                   ELSE "very-strong"]

StrengthCall(variant, password, result) ==
  /\ last' = Called("checkPasswordStrength", password, "ok", result, variant)
  /\ UNCHANGED <<now, sdkInitialized, currentWalletAddress, vault, localStorage, walrus,
                 walrusDeleted, isUnlocked, exportFile, createdWith, exported, t3Vars, tsxVars, uiPasswords, pending>>

RealCheckPasswordStrength(password) ==
  StrengthCall("walrus-seal-real", password, CheckPasswordStrength(password))

T3CheckPasswordStrength(password) ==
  StrengthCall("walrus-seal-track3", password, CheckPasswordStrength(password))

LegacyCheckPasswordStrength(password) ==
  StrengthCall("walrus-seal", password, WalrusSealCheckPasswordStrength(password))

(***************************************************************************)
(* Track 3 (frontend/src/lib/walrus-seal-track3.ts).                       *)
(*                                                                         *)
(* A JavaScript string the code takes apart is a sequence of tokens: the   *)
(* punctuation of JSON, keys, values and free text.                        *)
(***************************************************************************)
Punct(c) == [kind |-> "punct", val |-> c]
Key(k) == [kind |-> "key", val |-> k]
Val(v) == [kind |-> "value", val |-> v]
Text(v) == [kind |-> "text", val |-> v]

IsPunct(tok, c) == tok.kind = "punct" /\ tok.val = c

T3Fields == <<"id", "title", "username", "password", "url", "notes", "category",
              "createdAt", "updatedAt", "zkVerified", "privacyLevel">>
DateFields == {"createdAt", "updatedAt"}

T3Entry(id, title, password, notes, category, level, created, updated) ==
  [id |-> id, title |-> title, username |-> "user", password |-> password,
   url |-> "https://example.com", notes |-> notes,
   category |-> category, createdAt |-> created, updatedAt |-> updated,
   zkVerified |-> FALSE, privacyLevel |-> level]

\* JSON.stringify of an entry: {"id":...,"title":...,...}, a Date as its ISO string.
RECURSIVE StringifyFields(_, _)
StringifyFields(data, i) ==
  IF i > Len(T3Fields) THEN <<>>
  ELSE LET f == T3Fields[i]
           v == IF f \in DateFields THEN ToISOString(data[f]) ELSE data[f]
       IN (IF i > 1 THEN <<Punct(",")>> ELSE <<>>)
          \o <<Key(f), Punct(":"), Val(v)>>
          \o StringifyFields(data, i + 1)

\* A payload that is a string and no object: JSON.stringify writes it as one
\* quoted value.
PlainText(text) == [json |-> "string", text |-> text]

JSONStringify(data) ==
  IF HasField(data, "json") THEN <<Val(data)>>
  ELSE <<Punct("{")>> \o StringifyFields(data, 1) \o <<Punct("}")>>

\* JSON.parse: the object of a well-formed text, or a SyntaxError (ok FALSE).
\* Nothing revives a Date: an ISO string stays a string.
WellFormedObject(s) ==
  /\ Len(s) >= 5
  /\ (Len(s) - 1) % 4 = 0
  /\ IsPunct(s[1], "{")
  /\ IsPunct(s[Len(s)], "}")
  /\ \A k \in 0..(((Len(s) - 1) \div 4) - 1) :
       /\ s[4 * k + 2].kind = "key"
       /\ IsPunct(s[4 * k + 3], ":")
       /\ s[4 * k + 4].kind = "value"
       /\ (4 * k + 5 < Len(s)) => IsPunct(s[4 * k + 5], ",")

\* A text that is one value and no more: a string, a number, or an object
\* written as a whole.
WellFormedValue(s) == Len(s) = 1 /\ s[1].kind = "value"

WellFormedJSON(s) == WellFormedValue(s) \/ WellFormedObject(s)

JSONParse(s) ==
  IF WellFormedValue(s) THEN [ok |-> TRUE, value |-> s[1].val]
  ELSE IF WellFormedObject(s)
  THEN LET n == (Len(s) - 1) \div 4
           keys == {s[4 * k + 2].val : k \in 0..(n - 1)}
       IN [ok |-> TRUE,
           value |-> [f \in keys |->
                        s[(CHOOSE k \in 0..(n - 1) : s[4 * k + 2].val = f) * 4 + 4].val]]
  ELSE [ok |-> FALSE]

\* btoa and atob.
Btoa(s) == [b64 |-> s]
Atob(e) == e.b64

\* String.prototype.split(':')[0]: the text before the first ':'.
BeforeFirstColon(s) ==
  IF \E i \in 1..Len(s) : IsPunct(s[i], ":")
  THEN SubSeq(s, 1, (CHOOSE i \in 1..Len(s) :
                       /\ IsPunct(s[i], ":")
                       /\ \A j \in 1..(i - 1) : ~IsPunct(s[j], ":")) - 1)
  ELSE s

GetPrivateKey(t) == Text(<<"private-key-", t>>)
GetSecretKey(t) == Text(<<"secret-key-", t>>)

EncryptAES(data, key) == Btoa(data \o <<Punct(":"), key>>)
DecryptAES(encryptedData, key) == BeforeFirstColon(Atob(encryptedData))

EncryptWithPrivacy(data, privacyLevel, t) ==
  LET jsonData == JSONStringify(data) IN
  IF privacyLevel = "public" THEN Btoa(jsonData)
  ELSE IF privacyLevel = "private" THEN EncryptAES(jsonData, GetPrivateKey(t))
  ELSE EncryptAES(jsonData, GetSecretKey(t))

DecryptWithPrivacy(encryptedData, privacyLevel, t) ==
  JSONParse(IF privacyLevel = "public" THEN Atob(encryptedData)
            ELSE IF privacyLevel = "private" THEN DecryptAES(encryptedData, GetPrivateKey(t))
            ELSE DecryptAES(encryptedData, GetSecretKey(t)))

(***************************************************************************)
(* determinePrivacyLevel reads title and notes letter by letter.           *)
(***************************************************************************)
Chars(str) ==
  CASE str = "Bank" -> <<"B", "a", "n", "k">>
    [] str = "Mail" -> <<"M", "a", "i", "l">>
    [] str = "Wiki" -> <<"W", "i", "k", "i">>
    [] str = "login" -> <<"l", "o", "g", "i", "n">>
    [] str = "Forum" -> <<"F", "o", "r", "u", "m">>
    [] str = "note-a" -> <<"n", "o", "t", "e", "-", "a">>
    [] str = "note-b" -> <<"n", "o", "t", "e", "-", "b">>
    [] str = "MyBANK" -> <<"M", "y", "B", "A", "N", "K">>
    [] str = "Ban k" -> <<"B", "a", "n", " ", "k">>
    [] str = "my Ssn" -> <<"m", "y", " ", "S", "s", "n">>
    [] str = "pw-bank" -> <<"p", "w", "-", "b", "a", "n", "k">>
    [] OTHER -> <<>>

\* String.prototype.toLowerCase over the letters in use.
UpperCase == <<"A", "B", "F", "K", "M", "N", "S", "W">>
LowerCase == <<"a", "b", "f", "k", "m", "n", "s", "w">>

ToLowerCase(chars) ==
  [i \in 1..Len(chars) |->
     IF \E k \in 1..Len(UpperCase) : UpperCase[k] = chars[i]
     THEN LowerCase[CHOOSE k \in 1..Len(UpperCase) : UpperCase[k] = chars[i]]
     ELSE chars[i]]

Includes(chars, keyword) ==
  \E i \in 1..(Len(chars) - Len(keyword) + 1) :
    SubSeq(chars, i, i + Len(keyword) - 1) = keyword

SensitiveKeywords ==
  { <<"b", "a", "n", "k">>, <<"c", "r", "e", "d", "i", "t">>,
    <<"s", "o", "c", "i", "a", "l">>, <<"s", "s", "n">>,
    <<"p", "a", "s", "s", "p", "o", "r", "t">>, <<"m", "e", "d", "i", "c", "a", "l">> }

\* determinePrivacyLevel with the category asked before the keywords.
DeterminePrivacyLevelCategoryFirst(password) ==
  LET title == ToLowerCase(Chars(password.title))
      notes == ToLowerCase(Chars(password.notes))
  IN IF password.category = "Banking" \/ password.category = "Personal"
     THEN "private"
     ELSE IF \E keyword \in SensitiveKeywords :
               Includes(title, keyword) \/ Includes(notes, keyword)
     THEN "secret"
     ELSE "public"

DeterminePrivacyLevel(password) ==
  LET title == ToLowerCase(Chars(password.title))
      notes == ToLowerCase(Chars(password.notes))
  IN IF \E keyword \in SensitiveKeywords : Includes(title, keyword) \/ Includes(notes, keyword)
     THEN "secret"
     ELSE IF password.category = "Banking" \/ password.category = "Personal"
     THEN "private"
     ELSE "public"

(***************************************************************************)
(* WalrusStorage and SealProofSystem.                                      *)
(***************************************************************************)
\* generateZkProofHash: a SHA-256 digest in hex.  The code only asks whether
\* the digest includes a password id; of the ids in use only those made of
\* hex digits can occur in it, and whether they do is drawn at the store.
HexIds == {"7"}
Digests == {[includes |-> ids] : ids \in SUBSET HexIds}
HashIncludes(zkProofHash, passwordId) == passwordId \in zkProofHash.includes

NoProof == [kind |-> "none"]

GenerateProof(data, publicInputs, privateInputs, t) ==
  [kind |-> "proof",
   proof |-> Btoa(<<Val([publicInputs |-> publicInputs, privateInputs |-> privateInputs,
                         timestamp |-> t])>>),
   publicInputs |-> publicInputs, privateInputs |-> privateInputs,
   verificationKey |-> "vk-uuid"]

GeneratePasswordProof(passwordEntry, masterPassword, walletAddress, t) ==
  GenerateProof(passwordEntry, <<walletAddress, passwordEntry.id>>,
                <<masterPassword, passwordEntry.password>>, t)

\* WalrusStorage.verifyZkProof: a base64 text is empty only if its source is.
VerifyZkProof(proof) == Len(Atob(proof.proof)) > 0 /\ Len(proof.publicInputs) > 0

\* 24 * 60 * 60 * 1000: the milliseconds of 24 hours.
DayMs == 24 * 60 * 60 * 1000

\* SealProofSystem.verifyProof with the age compared by >= in place of >.
VerifyProofExpiringAtWindow(proof, t) ==
  LET proofData == JSONParse(Atob(proof.proof)) IN
  IF ~proofData.ok THEN FALSE
  ELSE IF HasField(proofData.value, "timestamp") /\ t - proofData.value.timestamp >= DayMs
  THEN FALSE
  ELSE /\ Len(proof.publicInputs) > 0
       /\ Len(proof.privateInputs) > 0
       /\ Len(proof.verificationKey) > 0

\* SealProofSystem.verifyProof at time t.  A token that does not parse is
\* caught and answered false; the age of a token without a timestamp is NaN,
\* which is not greater than the window.
VerifyProof(proof, t) ==
  LET proofData == JSONParse(Atob(proof.proof)) IN
  IF ~proofData.ok THEN FALSE
  ELSE IF HasField(proofData.value, "timestamp") /\ t - proofData.value.timestamp > DayMs
  THEN FALSE
  ELSE /\ Len(proof.publicInputs) > 0
       /\ Len(proof.privateInputs) > 0
       /\ Len(proof.verificationKey) > 0

\* WalrusStorage.store: the storage it leaves and the reference it returns.
\* generateSecureId is a fresh id; the dates of the reference, which nothing
\* reads, are left out.
Store(st, data, privacyLevel, digest, t) ==
  LET id == Cardinality(DOMAIN st.storage) + 1
      reference == [id |-> id,
                    encryptedData |-> EncryptWithPrivacy(data, privacyLevel, t),
                    metadata |-> [privacyLevel |-> privacyLevel, zkProofHash |-> digest]]
  IN [storage |-> [storage |-> MapPut(st.storage, id, reference),
                   privacyLevels |-> MapPut(st.privacyLevels, id, privacyLevel)],
      reference |-> reference]

\* WalrusStorage.retrieve: the entry, or the error thrown.
Retrieve(st, reference, proof, t) ==
  IF reference.id \notin DOMAIN st.storage
  THEN [ok |-> FALSE, error |-> "Data not found in Walrus storage"]
  ELSE LET privacyLevel == st.privacyLevels[reference.id] IN
       IF privacyLevel = "secret" /\ proof = NoProof
       THEN [ok |-> FALSE, error |-> "Secret data requires zero-knowledge proof"]
       ELSE IF proof # NoProof /\ ~VerifyZkProof(proof)
       THEN [ok |-> FALSE, error |-> "Invalid zero-knowledge proof"]
       ELSE LET parsed == DecryptWithPrivacy(st.storage[reference.id].encryptedData,
                                             privacyLevel, t)
            IN IF parsed.ok THEN [ok |-> TRUE, value |-> parsed.value]
               ELSE [ok |-> FALSE, error |-> "SyntaxError"]

Filter(refs, passwordId) ==
  SelectSeq(refs, LAMBDA ref : ~HashIncludes(ref.metadata.zkProofHash, passwordId))

\* The loop of getAllPasswords: retrieve without a proof, a throw is skipped.
RECURSIVE RetrieveAll(_, _, _, _)
RetrieveAll(st, refs, i, t) ==
  IF i > Len(refs) THEN <<>>
  ELSE LET r == Retrieve(st, refs[i], NoProof, t)
       IN (IF r.ok THEN <<r.value>> ELSE <<>>) \o RetrieveAll(st, refs, i + 1, t)

\* The loop of createVault: [storage, references] after storing each password.
RECURSIVE StoreEach(_, _, _, _, _)
StoreEach(acc, passwords, digests, i, t) ==
  IF i > Len(passwords) THEN acc
  ELSE LET r == Store(acc.storage, passwords[i], DeterminePrivacyLevel(passwords[i]),
                      digests[i], t)
       IN StoreEach([storage |-> r.storage,
                     references |-> Append(acc.references, r.reference)],
                    passwords, digests, i + 1, t)

(***************************************************************************)
(* Track3PasswordManager                                                   *)
(***************************************************************************)
MaxStored == 2
MaxDeficit == 1
MaxDays == 1

T3CanStore(n) == Cardinality(DOMAIN t3Storage.storage) + n <= MaxStored

T3SetWalletAddress(address) ==
  /\ t3WalletAddress' = address
  /\ last' = Called("t3.setWalletAddress", address, "ok", "void", "none")
  /\ UNCHANGED <<now, realVars, t3Vault, t3Storage, t3ExportFile>>

\* createVault up to its return: [storage, vault].
T3CreateVaultState(initialPasswords, digests) ==
  LET st == StoreEach([storage |-> t3Storage, references |-> <<>>],
                      initialPasswords, digests, 1, now)
  IN [storage |-> st.storage,
      vault |-> [kind |-> "vault", walletAddress |-> t3WalletAddress,
                 storageReferences |-> st.references,
                 entryCount |-> Len(initialPasswords)]]

T3CreateVault(masterPassword, initialPasswords, digests) ==
  /\ IF t3WalletAddress = NoWallet
     THEN /\ last' = Called("t3.createVault", masterPassword, "error",
                            "Wallet address required for vault creation", "none")
          /\ UNCHANGED <<t3Vault, t3Storage>>
     ELSE LET st == T3CreateVaultState(initialPasswords, digests)
          IN /\ T3CanStore(Len(initialPasswords))
             /\ t3Storage' = st.storage
             /\ t3Vault' = st.vault
             /\ last' = Called("t3.createVault", masterPassword, "ok", "vault", "none")
  /\ UNCHANGED <<now, realVars, t3WalletAddress, t3ExportFile>>

\* addPassword on vault v: [storage, vault].
T3AddedState(v, passwordEntry, masterPassword, digest) ==
  LET r == Store(t3Storage, passwordEntry, DeterminePrivacyLevel(passwordEntry), digest, now)
  IN [storage |-> r.storage,
      vault |-> [v EXCEPT !.storageReferences = Append(@, r.reference),
                          !.entryCount = @ + 1]]

T3AddPassword(passwordEntry, masterPassword, digest) ==
  /\ IF t3Vault = NoVault
     THEN /\ last' = Called("t3.addPassword", passwordEntry.id, "error",
                            "Vault not initialized", "none")
          /\ UNCHANGED <<t3Vault, t3Storage>>
     ELSE LET st == T3AddedState(t3Vault, passwordEntry, masterPassword, digest)
          IN /\ T3CanStore(1)
             /\ t3Storage' = st.storage
             /\ t3Vault' = st.vault
             /\ last' = Called("t3.addPassword", passwordEntry.id, "ok", "void", "none")
  /\ UNCHANGED <<now, realVars, t3WalletAddress, t3ExportFile>>

\* Array.prototype.find(ref => ref.metadata.zkProofHash.includes(passwordId)): 0 for none.
FindReference(refs, passwordId) ==
  IF \E i \in 1..Len(refs) : HashIncludes(refs[i].metadata.zkProofHash, passwordId)
  THEN CHOOSE i \in 1..Len(refs) :
         /\ HashIncludes(refs[i].metadata.zkProofHash, passwordId)
         /\ \A j \in 1..(i - 1) : ~HashIncludes(refs[j].metadata.zkProofHash, passwordId)
  ELSE 0

T3GetPassword(passwordId, masterPassword) ==
  /\ last' =
       IF t3Vault = NoVault
       THEN Called("t3.getPassword", passwordId, "error", "Vault not initialized", "none")
       ELSE LET index == FindReference(t3Vault.storageReferences, passwordId) IN
            IF index = 0
            THEN Called("t3.getPassword", passwordId, "ok", <<>>, "none")
            ELSE LET tempPassword == T3Entry(passwordId, "", "", "", "", "private", now, now)
                     proof == GeneratePasswordProof(tempPassword, masterPassword,
                                                    t3WalletAddress, now)
                     r == Retrieve(t3Storage, t3Vault.storageReferences[index], proof, now)
                 IN IF r.ok
                    THEN Called("t3.getPassword", passwordId, "ok", <<r.value>>, "proved")
                    ELSE Called("t3.getPassword", passwordId, "error", r.error, "proved")
  /\ UNCHANGED <<now, realVars, t3Vars>>

T3GetAllPasswords(masterPassword) ==
  /\ last' =
       IF t3Vault = NoVault
       THEN Called("t3.getAllPasswords", "", "error", "Vault not initialized", "none")
       ELSE Called("t3.getAllPasswords", "", "ok",
                   RetrieveAll(t3Storage, t3Vault.storageReferences, 1, now), "none")
  /\ UNCHANGED <<now, realVars, t3Vars>>

T3UpdatePassword(passwordId, updatedPassword, masterPassword, digest) ==
  /\ IF t3Vault = NoVault
     THEN /\ last' = Called("t3.updatePassword", passwordId, "error",
                            "Vault not initialized", "none")
          /\ UNCHANGED <<t3Vault, t3Storage>>
     ELSE LET v1 == [t3Vault EXCEPT !.storageReferences = Filter(@, passwordId)]
              st == T3AddedState(v1, updatedPassword, masterPassword, digest)
          IN /\ T3CanStore(1)
             /\ t3Storage' = st.storage
             /\ t3Vault' = st.vault
             /\ last' = Called("t3.updatePassword", passwordId, "ok", "void", "none")
  /\ UNCHANGED <<now, realVars, t3WalletAddress, t3ExportFile>>

T3DeletePassword(passwordId) ==
  /\ IF t3Vault = NoVault
     THEN /\ last' = Called("t3.deletePassword", passwordId, "error",
                            "Vault not initialized", "none")
          /\ UNCHANGED t3Vault
     ELSE /\ t3Vault.entryCount > 0 - MaxDeficit
          /\ t3Vault' = [t3Vault EXCEPT !.storageReferences = Filter(@, passwordId),
                                        !.entryCount = @ - 1]
          /\ last' = Called("t3.deletePassword", passwordId, "ok", "void", "none")
  /\ UNCHANGED <<now, realVars, t3WalletAddress, t3Storage, t3ExportFile>>

\* JSON.stringify of the export and JSON.parse of it by the importer.
T3ExportData(passwords, wallet) ==
  [kind |-> "export", walletAddress |-> wallet, passwords |-> passwords,
   metadata |-> [entryCount |-> Len(passwords)]]

T3ExportVault(masterPassword) ==
  /\ IF t3Vault = NoVault
     THEN /\ last' = Called("t3.exportVault", "", "error", "Vault not initialized", "none")
          /\ UNCHANGED t3ExportFile
     ELSE /\ t3ExportFile' =
               T3ExportData(RetrieveAll(t3Storage, t3Vault.storageReferences, 1, now),
                            t3WalletAddress)
          /\ last' = Called("t3.exportVault", "", "ok", "file", "none")
  /\ UNCHANGED <<now, realVars, t3WalletAddress, t3Vault, t3Storage>>

T3ImportedEntry(p) ==
  [p EXCEPT !.createdAt = NewDate(p.createdAt), !.updatedAt = NewDate(p.updatedAt),
            !.zkVerified = TRUE]

T3ImportVault(vaultData, masterPassword, digests) ==
  /\ IF vaultData.kind # "export"
     THEN /\ last' = Called("t3.importVault", "", "error", "SyntaxError", "none")
          /\ UNCHANGED <<t3Vault, t3Storage>>
     ELSE IF vaultData.walletAddress # t3WalletAddress
     THEN /\ last' = Called("t3.importVault", vaultData.walletAddress, "error",
                            "Vault wallet address mismatch", "none")
          /\ UNCHANGED <<t3Vault, t3Storage>>
     ELSE LET passwords == [i \in 1..Len(vaultData.passwords) |->
                              T3ImportedEntry(vaultData.passwords[i])]
              st == T3CreateVaultState(passwords, digests)
          IN IF t3WalletAddress = NoWallet
             THEN /\ last' = Called("t3.importVault", vaultData.walletAddress, "error",
                                    "Wallet address required for vault creation", "none")
                  /\ UNCHANGED <<t3Vault, t3Storage>>
             ELSE /\ DOMAIN digests = 1..Len(passwords)
                  /\ T3CanStore(Len(passwords))
                  /\ t3Storage' = st.storage
                  /\ t3Vault' = st.vault
                  /\ last' = Called("t3.importVault", vaultData.walletAddress, "ok",
                                    "void", "none")
  /\ UNCHANGED <<now, realVars, t3WalletAddress, t3ExportFile>>

\* The clock a day later.
Elapse ==
  /\ now + DayMs <= MaxDays * DayMs + MaxTime
  /\ now' = now + DayMs
  /\ UNCHANGED <<realVars, t3Vars, last>>

\* SealProofSystem.generateProof: the caller holds the proof it returns.
SealGenerateProof(data, publicInputs, privateInputs) ==
  /\ last' = Called("seal.generateProof", data.id, "ok",
                    GenerateProof(data, publicInputs, privateInputs, now), "none")
  /\ UNCHANGED <<now, realVars, t3Vars>>

\* The proof the caller holds: the one generateProof returned last.
HoldsProof == last.op \in {"seal.generateProof", "seal.verifyProof", "walrus.retrieve"}
IssuedProof == IF last.op = "seal.generateProof" THEN last.value ELSE last.detail.issued

\* The proofs a caller can hand over when it holds proof: proof itself, and
\* proof with one of its fields emptied or its token replaced.
ProofVariants(proof) ==
  { proof,
    [proof EXCEPT !.publicInputs = <<>>],
    [proof EXCEPT !.privateInputs = <<>>],
    [proof EXCEPT !.verificationKey = ""],
    [proof EXCEPT !.proof = Btoa(<<Text("not json")>>)],
    [proof EXCEPT !.proof = Btoa(<<Val([publicInputs |-> proof.publicInputs,
                                        privateInputs |-> proof.privateInputs])>>)] }

\* SealProofSystem.verifyProof on a proof the caller hands over.
SealVerifyProof(proof) ==
  /\ last' = Called("seal.verifyProof", last.id, "ok", VerifyProof(proof, now),
                    [proof |-> proof, issued |-> IssuedProof, at |-> now])
  /\ UNCHANGED <<now, realVars, t3Vars>>

\* WalrusStorage.store called with a payload and a level.
WalrusStore(data, privacyLevel, digest) ==
  /\ T3CanStore(1)
  /\ LET r == Store(t3Storage, data, privacyLevel, digest, now)
     IN /\ t3Storage' = r.storage
        /\ last' = Called("walrus.store", r.reference.id, "ok", r.reference, "none")
  /\ UNCHANGED <<now, realVars, t3WalletAddress, t3Vault, t3ExportFile>>

\* WalrusStorage.retrieve called with a reference store returned and a proof
\* the caller hands over.
WalrusRetrieve(id, proof) ==
  /\ id \in DOMAIN t3Storage.storage
  /\ LET r == Retrieve(t3Storage, t3Storage.storage[id], proof, now)
         detail == [proof |-> proof, issued |-> IssuedProof, at |-> now,
                    privacyLevel |-> t3Storage.privacyLevels[id]]
     IN last' = IF r.ok THEN Called("walrus.retrieve", id, "ok", r.value, detail)
                ELSE Called("walrus.retrieve", id, "error", r.error, detail)
  /\ UNCHANGED <<now, realVars, t3Vars>>

\* encryptWithPrivacy on a payload: the caller holds the ciphertext.
T3EncryptWithPrivacy(data, privacyLevel) ==
  /\ last' = Called("walrus.encryptWithPrivacy", privacyLevel, "ok",
                    EncryptWithPrivacy(data, privacyLevel, now),
                    [data |-> data, at |-> now])
  /\ UNCHANGED <<now, realVars, t3Vars>>

\* The ciphertexts that can come back for ciphertext c: c itself, c with the
\* text after the last ':' (the key) replaced, c with its first part (the
\* payload) replaced, and c cut short before its last part.
CipherVariants(c) ==
  LET text == Atob(c)
      n == Len(text)
  IN { c,
       Btoa([i \in 1..n |-> IF i = n THEN Text(<<"forged-key">>) ELSE text[i]]),
       Btoa([i \in 1..n |-> IF i = 1 THEN Val(PlainText("forged text")) ELSE text[i]]),
       Btoa(SubSeq(text, 1, n - 1)) }

\* decryptWithPrivacy on a ciphertext handed back for the one encrypted last.
T3DecryptWithPrivacy(encryptedData) ==
  /\ last.op = "walrus.encryptWithPrivacy"
  /\ LET r == DecryptWithPrivacy(encryptedData, last.id, now)
         detail == [data |-> last.detail.data, encryptedAt |-> last.detail.at, at |-> now,
                    encrypted |-> last.value, given |-> encryptedData]
     IN last' = IF r.ok THEN Called("walrus.decryptWithPrivacy", last.id, "ok", r.value, detail)
                ELSE Called("walrus.decryptWithPrivacy", last.id, "error", "SyntaxError",
                            detail)
  /\ UNCHANGED <<now, realVars, t3Vars>>

\* determinePrivacyLevel on an entry: what it answers.
T3DeterminePrivacyLevel(password) ==
  /\ last' = Called("t3.determinePrivacyLevel", password.id, "ok",
                    DeterminePrivacyLevel(password), password)
  /\ UNCHANGED <<now, realVars, t3Vars>>

(***************************************************************************)
(* The calls the model makes.                                              *)
(***************************************************************************)
Masters == {"master-1", "master-2"}
UnlockInputs == Masters \cup {"pw"}
GenIds == {"pwd-gen"}

RealEntries ==
  { Entry("p1", "Bank", "pw-a", "note-a", "Banking", "secret", 0, 0),
    Entry("", "Forum", "pw-b", "note-b", "General", "", MaxTime, MaxTime) }

CallIds == {"p1", "pwd-gen", "sample-1", "absent"}
ReadIds == {"p1", "absent"}

Outcomes(n) == [1..n -> BOOLEAN]

\* A vault's worth of entries, one of each privacy level.
TieredEntries ==
  << Entry("x1", "Forum", "pw-1", "note-1", "General", "public", 0, 0),
     Entry("x2", "Mail", "pw-2", "note-2", "Personal", "private", 0, 0),
     Entry("x3", "Bank", "pw-3", "note-3", "Banking", "secret", 0, 0) >>

InitialPasswords == {<<>>, TieredEntries}

\* The random salts of an export: one salt per entry, all different or all alike.
SaltChoices ==
  IF vault = NoVault THEN {<<>>}
  ELSE {[i \in 1..Len(vault.passwords) |-> "salt1"],
        [i \in 1..Len(vault.passwords) |-> IF i % 2 = 1 THEN "salt1" ELSE "salt2"]}
IVChoices == IF vault = NoVault THEN {<<>>} ELSE [1..Len(vault.passwords) -> IVs]

\* A file exported by the vault of another address.
ForeignFile ==
  ExportData([kind |-> "vault", walletAddress |-> "wB",
              passwords |-> <<NewEntry(TieredEntries[2], "", 0)>>,
              walrusReferences |-> EmptyMap, entryCount |-> 1],
             "master-1", <<"salt1">>, <<"iv1">>)

ImportFiles == {exportFile, Garbage, ForeignFile}

\* The remote outcomes of a createVault: every store fails, or only the last succeeds.
LastStored(n) == {[i \in 1..n |-> FALSE]} \cup {[i \in 1..n |-> i = n]}

\* Entries for the Track 3 manager: determinePrivacyLevel makes the first
\* secret, the second private and the third public.
T3Entries ==
  { T3Entry("bank-1", "Bank", "pw-s", "login", "Banking", "secret", 0, 0),
    T3Entry("mail-1", "Mail", "pw-p", "login", "Personal", "private", 0, 0),
    T3Entry("7", "Wiki", "pw-w", "login", "General", "private", 0, 0) }

T3Ids == {"bank-1", "7"}

T3InitialPasswords ==
  {<<>>} \cup {<<e>> : e \in T3Entries}

\* A file exported by the Track 3 vault of another address.
T3ForeignFile ==
  T3ExportData(<<[T3Entry("7", "Wiki", "pw-w", "login", "General", "private", 0, 0)
                    EXCEPT !.createdAt = ToISOString(0), !.updatedAt = ToISOString(0)]>>,
               "wB")

T3ImportFiles == {t3ExportFile, Garbage, T3ForeignFile}

DigestChoices(n) == [1..n -> Digests]

\* Create, add, update, delete and read on one address.
Next ==
  \/ Tick
  \/ SetWalletAddress("wA")
  \/ CreateVault("master-1", <<>>, <<>>)
  \/ \E e \in RealEntries, g \in GenIds, ok \in BOOLEAN : AddPassword(e, g, ok)
  \/ \E id \in CallIds, e \in RealEntries, ok \in BOOLEAN : UpdatePassword(id, e, ok)
  \/ \E id \in CallIds, ok \in BOOLEAN : DeletePassword(id, ok)
  \/ GetAllPasswords
  \/ \E id \in ReadIds : GetPassword(id)

Spec == Init /\ [][Next]_vars

\* The component's unlock and lock over a vault, with two master passwords.
NextUnlock ==
  \/ SetWalletAddress("wA")
  \/ \E m \in Masters : ValidateMasterPassword(m)
  \/ \E m \in UnlockInputs, oks \in Outcomes(Len(SamplePasswords)) : HandleUnlock(m, oks)
  \/ HandleLock
  \/ \E id \in {"sample-1"}, ok \in BOOLEAN : DeletePassword(id, ok)

SpecUnlock == Init /\ [][NextUnlock]_vars

\* Loading and unlocking over a mirror entry that can become unreadable.
NextLoad ==
  \/ Tick
  \/ SetWalletAddress("wA")
  \/ StorageDamaged("wA")
  \/ \E m \in UnlockInputs, oks \in Outcomes(Len(SamplePasswords)) : HandleUnlock(m, oks)
  \/ HandleLock
  \/ \E id \in {"sample-1"}, ok \in BOOLEAN : DeletePassword(id, ok)

SpecLoad == Init /\ [][NextLoad]_vars

\* Unlocking with several passwords, then exporting and importing.
NextVerify ==
  \/ SetWalletAddress("wA")
  \/ \E m \in UnlockInputs, oks \in LastStored(Len(SamplePasswords)) : HandleUnlock(m, oks)
  \/ HandleLock
  \/ \E salts \in SaltChoices, ivs \in IVChoices : ExportVault(salts, ivs)
  \/ \E f \in {exportFile} : ImportVault(f)

SpecVerify == Init /\ [][NextVerify]_vars

\* The component over the manager: the account effect, unlock and lock, the
\* handlers on the list, export and import.
ViewTitles == {"", "Wiki"}

\* A file exported earlier by a vault of the address wA.
ViewFile ==
  ExportData([kind |-> "vault", walletAddress |-> "wA",
              passwords |-> <<NewEntry(TieredEntries[1], "", 0)>>,
              walrusReferences |-> EmptyMap, entryCount |-> 1],
             "master-1", <<"salt1">>, <<"iv1">>)

\* Every remote store of the unlock that creates the vault fails.
NoneStored(n) == {[i \in 1..n |-> FALSE]}

NextView ==
  \/ \E w \in Wallets : SetWalletAddress(w)
  \/ \E oks \in NoneStored(Len(SamplePasswords)) : HandleUnlock("master-1", oks)
  \/ HandleLock
  \/ ComponentAddPassword("Wiki", "pw-b", FALSE)
  \/ ComponentDeletePassword(1, FALSE)
  \/ ComponentImportVault(ViewFile)

SpecView == Init /\ [][NextView]_vars

\* The component's handlers on the list, on one address.
NextList ==
  \/ SetWalletAddress("wA")
  \/ \E oks \in LastStored(Len(SamplePasswords)) : HandleUnlock("master-1", oks)
  \/ HandleLock
  \/ \E title \in ViewTitles, ok \in BOOLEAN : ComponentAddPassword(title, "pw-b", ok)
  \/ \E i \in 1..2, title \in ViewTitles, ok \in BOOLEAN : ComponentEditPassword(i, title, ok)
  \/ \E i \in 1..2, ok \in BOOLEAN : ComponentDeletePassword(i, ok)
  \/ \E f \in {ViewFile, Garbage, ForeignFile} : ComponentImportVault(f)

SpecList == Init /\ [][NextList]_vars

\* Export and import on one address, with two master passwords.
NextXfer ==
  \/ SetWalletAddress("wA")
  \/ \E m \in Masters, ps \in InitialPasswords :
        \E oks \in LastStored(Len(ps)) : CreateVault(m, ps, oks)
  \/ \E m \in Masters : ValidateMasterPassword(m)
  \/ \E salts \in SaltChoices, ivs \in IVChoices : ExportVault(salts, ivs)
  \/ \E f \in ImportFiles : ImportVault(f)

SpecXfer == Init /\ [][NextXfer]_vars

\* Passwords for the strength checkers: some of the characters a, Q, 7 and #
\* in front, then one character repeated up to a length on either side of
\* each threshold.
MaxPasswordLength == 17
StrengthAlphabet == <<"a", "Q", "7", "#">>
StrengthFill == {"z", "Q", "7", "é"}
StrengthLengths == {0, 7, 8, 11, 12, 15, 16, MaxPasswordLength}
StrengthPrefixes ==
  { SelectSeq(StrengthAlphabet, LAMBDA c : c \in S) :
      S \in SUBSET {StrengthAlphabet[i] : i \in DOMAIN StrengthAlphabet} }
StrengthPasswords ==
  { x[1] \o [i \in 1..(x[3] - Len(x[1])) |-> x[2]] :
      x \in { y \in StrengthPrefixes \X StrengthFill \X StrengthLengths :
                Len(y[1]) <= y[3] } }

NextStrength ==
  \/ \E password \in StrengthPasswords : RealCheckPasswordStrength(password)
  \/ \E password \in StrengthPasswords : T3CheckPasswordStrength(password)
  \/ \E password \in StrengthPasswords : LegacyCheckPasswordStrength(password)

SpecStrength == Init /\ [][NextStrength]_vars

\* The hybrid manager with its remote stores in flight.
AsyncEntries ==
  { Entry("p1", "Bank", "pw-a", "note-a", "Banking", "secret", 0, 0),
    Entry("", "Forum", "pw-b", "note-b", "General", "", 0, 0) }

NextAsync ==
  \/ SetWalletAddress("wA")
  \/ CreateVault("master-1", <<>>, <<>>)
  \/ \E e \in AsyncEntries, g \in GenIds : AddPasswordCall(e, g)
  \/ \E e \in AsyncEntries : UpdatePasswordCall("p1", e)
  \/ \E k \in 1..MaxInFlight, ok \in BOOLEAN : StoreSettles(k, ok)
  \/ \E id \in {"p1", "pwd-gen"}, ok \in BOOLEAN : DeletePassword(id, ok)
  \/ GetAllPasswords

SpecAsync == Init /\ [][NextAsync]_vars

\* The hybrid manager over two addresses, its adds awaiting the remote store.
NextAccounts ==
  \/ \E w \in Wallets : SetWalletAddress(w)
  \/ CreateVault("master-1", <<>>, <<>>)
  \/ \E e \in AsyncEntries, g \in GenIds : AddPasswordCall(e, g)
  \/ \E k \in 1..MaxInFlight, ok \in BOOLEAN : StoreSettles(k, ok)
  \/ GetAllPasswords

SpecAccounts == Init /\ [][NextAccounts]_vars

\* The localStorage component: unlock, changes of the list, lock and reload.
TsxTitles == {"", "Forum", "Wiki"}

NextTsx ==
  \/ Tick
  \/ \E m \in UnlockInputs : TsxHandleUnlock(m)
  \/ TsxHandleLock
  \/ \E title \in TsxTitles : TsxAddPassword(title, "pw-b", "General")
  \/ \E id \in {"sample-1", "0"}, title \in {"", "Wiki"} : TsxEditPassword(id, title)
  \/ \E id \in {"sample-1", "sample-2", "sample-3", "0", "1"} : TsxDeletePassword(id)
  \/ TsxReload
  \/ \E c \in BOOLEAN : TsxResetMasterPassword(c)

SpecTsx == Init /\ [][NextTsx]_vars

\* Reads between writes, on the hybrid manager or on the Track 3 manager: a
\* run drives one of the two.
NextGetAll ==
  \/ Tick
  \/ /\ t3WalletAddress = NoWallet
     /\ \/ SetWalletAddress("wA")
        \/ CreateVault("master-1", <<>>, <<>>)
        \/ \E e \in RealEntries, g \in GenIds, ok \in BOOLEAN : AddPassword(e, g, ok)
        \/ \E id \in ReadIds, ok \in BOOLEAN : DeletePassword(id, ok)
        \/ GetAllPasswords
        \/ \E id \in ReadIds : GetPassword(id)
  \/ /\ currentWalletAddress = NoWallet
     /\ \/ T3SetWalletAddress("wA")
        \/ T3CreateVault("master-1", <<>>, <<>>)
        \/ \E e \in T3Entries, digest \in Digests : T3AddPassword(e, "master-1", digest)
        \/ \E id \in T3Ids : T3DeletePassword(id)
        \/ T3GetAllPasswords("master-1")

SpecGetAll == Init /\ [][NextGetAll]_vars

\* The resets, from the component and on the manager, over two addresses.
NextReset ==
  \/ \E w \in Wallets : SetWalletAddress(w)
  \/ \E m \in Masters, oks \in LastStored(Len(SamplePasswords)) : HandleUnlock(m, oks)
  \/ HandleLock
  \/ \E c \in BOOLEAN : ResetMasterPassword(c)
  \/ \E c \in BOOLEAN : ForceResetVault(c)
  \/ \E m \in Masters, oks \in LastStored(2) : ResetAndCreateNewVault(m, oks)
  \/ \E m \in Masters, oks \in LastStored(2) : EmergencyClearAndStartFresh(m, oks)

SpecReset == Init /\ [][NextReset]_vars

\* The entries a session adds: the one of testRealSDK, and one without an id.
SessionEntries ==
  { Entry("test-1", "Test Account", "testpass123", "Test password", "Personal", "private",
          0, 0),
    Entry("", "Forum", "pw-b", "note-b", "General", "", MaxTime, MaxTime) }

\* No entry has been added since the vault was created.
FreshVault == IF vault = NoVault THEN TRUE ELSE vault.passwords = <<>>

\* A session as testRealSDK runs it: the address set, an empty vault created,
\* an entry added to it, and the vault read, described and exported.
NextSession ==
  \/ Tick
  \/ SetWalletAddress("wA")
  \/ CreateVault("master-1", <<>>, <<>>)
  \/ FreshVault /\ \E e \in SessionEntries, g \in GenIds, ok \in BOOLEAN :
        AddPassword(e, g, ok)
  \/ GetAllPasswords
  \/ GetVaultMetadata
  \/ \E salts \in SaltChoices, ivs \in IVChoices : ExportVault(salts, ivs)

SpecSession == Init /\ [][NextSession]_vars

\* The Track 3 manager on one address.
NextT3 ==
  \/ Tick
  \/ T3SetWalletAddress("wA")
  \/ \E ps \in T3InitialPasswords :
        \E digests \in DigestChoices(Len(ps)) : T3CreateVault("master-1", ps, digests)
  \/ \E e \in T3Entries, digest \in Digests : T3AddPassword(e, "master-1", digest)
  \/ \E id \in T3Ids : T3GetPassword(id, "master-1")
  \/ T3GetAllPasswords("master-1")
  \/ \E id \in T3Ids, e \in T3Entries, digest \in Digests :
        T3UpdatePassword(id, e, "master-1", digest)
  \/ \E id \in T3Ids : T3DeletePassword(id)
  \/ T3ExportVault("master-1")
  \/ \E f \in T3ImportFiles :
        \E digests \in DigestChoices(IF f.kind = "export" THEN Len(f.passwords) ELSE 0) :
          T3ImportVault(f, "master-1", digests)

SpecT3 == Init /\ [][NextT3]_vars

\* Entries to classify: titles and notes with and without a keyword, in either
\* case, under each kind of category, with other fields that name a keyword.
ClassifyTitles == {"Bank", "MyBANK", "Ban k", "Mail"}
ClassifyNotes == {"login", "my Ssn", "note-a"}
ClassifyCategories == {"Banking", "Personal", "General"}
ClassifyUrls == {"https://example.com", "https://bank.example"}
ClassifyPasswords == {"pw-w", "pw-bank"}

ClassifyInputs ==
  { [T3Entry("c-1", t, pw, n, c, "public", 0, 0) EXCEPT !.url = u] :
      t \in ClassifyTitles, n \in ClassifyNotes, c \in ClassifyCategories,
      u \in ClassifyUrls, pw \in ClassifyPasswords }

\* determinePrivacyLevel over the entries to classify.
NextClassify == \E e \in ClassifyInputs : T3DeterminePrivacyLevel(e)

SpecClassify == Init /\ [][NextClassify]_vars

\* The inputs generateProof is called with: those of generatePasswordProof,
\* and empty lists.
ProofPublicInputs == {<<"wA", "bank-1">>, <<>>}
ProofPrivateInputs == {<<"master-1", "pw-s">>, <<>>}
ProofEntries == {T3Entry("bank-1", "Bank", "pw-s", "login", "Banking", "secret", 0, 0)}

\* The proof system over two days.
NextSeal ==
  \/ Tick
  \/ Elapse
  \/ \E e \in ProofEntries, pub \in ProofPublicInputs, priv \in ProofPrivateInputs :
        SealGenerateProof(e, pub, priv)
  \/ HoldsProof /\ \E proof \in ProofVariants(IssuedProof) : SealVerifyProof(proof)

SpecSeal == Init /\ [][NextSeal]_vars

\* What is put into the store directly: an entry, and a recovery phrase.
StorePayloads ==
  { T3Entry("bank-1", "Bank", "pw-s", "login", "Banking", "secret", 0, 0),
    PlainText("recovery phrase") }

NoDigest == [includes |-> {}]

\* WalrusStorage used directly: secret payloads stored, proofs issued, the
\* payloads retrieved with a proof a day later.
NextRetrieve ==
  \/ Tick
  \/ Elapse
  \/ \E data \in StorePayloads : WalrusStore(data, "secret", NoDigest)
  \/ \E e \in ProofEntries :
        SealGenerateProof(e, <<"wA", e.id>>, <<"master-1", e.password>>)
  \/ HoldsProof /\ \E id \in 1..MaxStored, proof \in ProofVariants(IssuedProof) \cup {NoProof} :
        WalrusRetrieve(id, proof)

SpecRetrieve == Init /\ [][NextRetrieve]_vars

\* Payloads to encrypt: entries, whose JSON text holds ':', and strings, whose
\* JSON text holds none.
CipherPayloads ==
  T3Entries \cup {PlainText("recovery phrase"), PlainText("pin 0000")}

PrivacyLevels == {"public", "private", "secret"}

\* The cipher of WalrusStorage: a payload encrypted, a ciphertext decrypted.
NextCipher ==
  \/ Tick
  \/ \E data \in CipherPayloads, level \in PrivacyLevels : T3EncryptWithPrivacy(data, level)
  \/ last.op = "walrus.encryptWithPrivacy"
       /\ \E c \in CipherVariants(last.value) : T3DecryptWithPrivacy(c)

SpecCipher == Init /\ [][NextCipher]_vars

(***************************************************************************)
(* Properties of the hybrid manager.                                       *)
(***************************************************************************)
Mirror(ls, wallet) == ls.vaults[wallet]

PrivateLevels == {"private", "secret"}

\* C2: an addPassword whose remote store fails completes, leaves the record in
\* the vault and in the mirror, raises entryCount by one, leaves no
\* walrusReferences entry for the id, and hands its caller a warning result
\* that tells the degraded add from a fully durable one.
C2_DegradedAddWarnsCaller ==
  [][\A e \in RealEntries, g \in GenIds :
       ( /\ AddPassword(e, g, FALSE)
         /\ sdkInitialized
         /\ vault # NoVault
         /\ currentWalletAddress # NoWallet
         /\ NewEntry(e, g, now).id \notin Ids(vault.passwords) )
       => ( /\ last'.status = "ok"
            /\ NewEntry(e, g, now).id \in Ids(vault'.passwords)
            /\ Mirror(localStorage', currentWalletAddress) = StringifyVault(vault')
            /\ vault'.entryCount = vault.entryCount + 1
            /\ NewEntry(e, g, now).id \notin DOMAIN vault'.walrusReferences
            /\ last'.value = "warning" )]_vars

\* The part of C2 the code keeps: the local write of a degraded add.
DegradedAddKeepsLocalWrite ==
  [][\A e \in RealEntries, g \in GenIds :
       ( /\ AddPassword(e, g, FALSE)
         /\ sdkInitialized
         /\ vault # NoVault
         /\ currentWalletAddress # NoWallet
         /\ NewEntry(e, g, now).id \notin Ids(vault.passwords) )
       => ( /\ last'.status = "ok"
            /\ NewEntry(e, g, now).id \in Ids(vault'.passwords)
            /\ Mirror(localStorage', currentWalletAddress) = StringifyVault(vault')
            /\ vault'.entryCount = vault.entryCount + 1
            /\ NewEntry(e, g, now).id \notin DOMAIN vault'.walrusReferences )]_vars

\* C4: an unlock of an existing vault that holds a private or secret record,
\* with a master password other than the one the vault was created with,
\* fails as an incorrect password and leaves the component locked.
C4_WrongMasterStaysLocked ==
  ( /\ last.op = "handleUnlock"
    /\ last.id \in Masters
    /\ vault # NoVault
    /\ last.value # "created"
    /\ \E i \in 1..Len(vault.passwords) : vault.passwords[i].privacyLevel \in PrivateLevels
    /\ last.id # createdWith[vault.walletAddress] )
  => ( last.status = "error" /\ last.value = "Incorrect Password" /\ ~isUnlocked )

\* C5: the master password is written neither to localStorage nor into a blob
\* put to the remote store.
C5_MasterPasswordNotStored ==
  /\ localStorage.master \notin Masters
  /\ \A i \in 1..Len(walrus) : walrus[i].masterPassword \notin Masters

\* The passwords of the last export are entries as addPassword and createVault
\* make them: none is the undecrypted rest of an earlier import.
ExportedPlainEntries ==
  /\ exported # NoItem
  /\ \A i \in 1..Len(exported.passwords) : ~HasField(exported.passwords[i], "encryptedData")

\* C7: importing the vault's own export under the master password of the
\* export yields the passwords that were exported, field by field, and an
\* entryCount equal to their number.
C7_ExportImportRoundTrip ==
  ( /\ last.op = "importVault"
    /\ last.status = "ok"
    /\ last.detail.ownExport
    /\ ExportedPlainEntries
    /\ GetMasterPassword(localStorage) = exported.masterPassword )
  => ( /\ vault.passwords = exported.passwords
       /\ vault.entryCount = Len(exported.passwords)
       /\ vault.walletAddress = currentWalletAddress )

\* Three records, one public, one private and one secret, exported, then
\* imported into a freshly created vault under the same master password.
C7_Witness ==
  /\ last.op = "importVault"
  /\ last.status = "ok"
  /\ last.detail.ownExport
  /\ last.detail.replaced = "fresh"
  /\ ExportedPlainEntries
  /\ GetMasterPassword(localStorage) = exported.masterPassword
  /\ Len(vault.passwords) = 3
  /\ vault.passwords[1].privacyLevel = "public"
  /\ vault.passwords[2].privacyLevel = "private"
  /\ vault.passwords[3].privacyLevel = "secret"
  /\ vault.passwords[3].password = "pw-3"

\* C8: an importVault of a file whose walletAddress differs from the current
\* address fails and leaves the vault and the mirror as they were.
C8_MismatchedImportRejected ==
  [][\A f \in ImportFiles :
       ( /\ ImportVault(f)
         /\ f.kind = "export"
         /\ f.vault.walletAddress # currentWalletAddress )
       => ( /\ last'.status = "error"
            /\ vault' = vault
            /\ localStorage' = localStorage )]_vars

\* A file of another address was refused while a vault with records was loaded.
C8_Witness ==
  /\ last.op = "importVault"
  /\ last.status = "error"
  /\ last.value = "Wallet address mismatch"
  /\ last.id = "wB"
  /\ currentWalletAddress = "wA"
  /\ vault # NoVault
  /\ Len(vault.passwords) = 3
  /\ Mirror(localStorage, "wA") = StringifyVault(vault)

StoredEntry(ref) ==
  LET text == Atob(ref.encryptedData)
  IN JSONParse(IF ref.metadata.privacyLevel = "public" THEN text
               ELSE SubSeq(text, 1, Len(text) - 2)).value

T3References == IF t3Vault = NoVault THEN <<>> ELSE t3Vault.storageReferences

\* C1: a getAllPasswords over a vault that holds a secret record, for which no
\* proof has been verified, fails as access denied: the record is neither
\* returned nor left out of a result that reports success.
C1_SecretReadNeedsVerifiedProof ==
  ( /\ last.op = "t3.getAllPasswords"
    /\ t3Vault # NoVault
    /\ \E i \in 1..Len(T3References) :
         t3Storage.privacyLevels[T3References[i].id] = "secret" )
  => ( /\ last.status = "error"
       /\ last.value = "Secret data requires zero-knowledge proof" )

\* The hybrid manager's side of C1: a read answers no secret entry, as it
\* verifies no proof.
RealSecretReadNeedsVerifiedProof ==
  ( last.op \in {"getAllPasswords", "getPassword"} /\ last.status = "ok" )
  => \A i \in 1..Len(last.value) : last.value[i].privacyLevel # "secret"

\* C3: whenever a vault is loaded its entryCount is the number of records it
\* holds, in the hybrid manager and in the Track 3 manager.
C3_EntryCountIsRecordCount ==
  /\ vault # NoVault => vault.entryCount = Len(vault.passwords)
  /\ t3Vault # NoVault => t3Vault.entryCount = Len(t3Vault.storageReferences)

\* The hybrid manager's side of C3.
RealEntryCountIsRecordCount ==
  vault # NoVault => vault.entryCount = Len(vault.passwords)

Redacted(p) ==
  /\ p.password = Sentinel
  /\ p.notes = Sentinel
  /\ HasField(p, "encryptedData")

\* C6: in an exported file every entry whose privacy level is private or secret
\* has the sentinel for password and notes and carries encryptedData.
C6_ExportHidesPrivateFields ==
  /\ exportFile # NoItem =>
       \A i \in 1..Len(exportFile.vault.passwords) :
         exportFile.vault.passwords[i].privacyLevel \in PrivateLevels
           => Redacted(exportFile.vault.passwords[i])
  /\ t3ExportFile # NoItem =>
       \A i \in 1..Len(t3ExportFile.passwords) :
         t3ExportFile.passwords[i].privacyLevel \in PrivateLevels
           => Redacted(t3ExportFile.passwords[i])

\* The hybrid manager's side of C6: every exported entry is redacted and its
\* encryptedData holds the two fields under a key derived from the master
\* password.
RealExportHidesPrivateFields ==
  ( exportFile # NoItem /\ exported # NoItem ) =>
    \A i \in 1..Len(exportFile.vault.passwords) :
      LET p == exportFile.vault.passwords[i] IN
      /\ Redacted(p)
      /\ p.encryptedData.encrypted.key = PBKDF2(exported.masterPassword, p.encryptedData.salt)
      /\ p.encryptedData.encrypted.plain =
           [password |-> exported.passwords[i].password, notes |-> exported.passwords[i].notes]

\* C10: an updatePassword of an id the vault holds leaves a record of that id
\* with the createdAt it had and with the time of the update as updatedAt,
\* whatever id and dates the new content carries.
C10_UpdateKeepsIdAndCreatedAt ==
  [][\A id \in T3Ids, e \in T3Entries, digest \in Digests :
       ( /\ T3UpdatePassword(id, e, "master-1", digest)
         /\ t3Vault # NoVault )
       => \A i \in 1..Len(t3Vault.storageReferences) :
            StoredEntry(t3Vault.storageReferences[i]).id = id
            => \E j \in 1..Len(t3Vault'.storageReferences) :
                 LET new == StoredEntry(t3Vault'.storageReferences[j]) IN
                 /\ new.id = id
                 /\ new.createdAt = StoredEntry(t3Vault.storageReferences[i]).createdAt
                 /\ new.updatedAt = ToISOString(now)]_vars

\* The hybrid manager's side of C10.
RealUpdateKeepsIdAndCreatedAt ==
  [][\A id \in CallIds, e \in RealEntries, ok \in BOOLEAN :
       ( /\ UpdatePassword(id, e, ok)
         /\ vault # NoVault
         /\ FindIndex(vault.passwords, id) # 0 )
       => LET index == FindIndex(vault.passwords, id) IN
          /\ Len(vault'.passwords) = Len(vault.passwords)
          /\ vault'.passwords[index].id = id
          /\ vault'.passwords[index].createdAt = vault.passwords[index].createdAt
          /\ vault'.passwords[index].updatedAt = now
          /\ \A j \in 1..Len(vault.passwords) :
               j # index => vault'.passwords[j] = vault.passwords[j]]_vars

\* The Track 3 manager's side of C8.
T3MismatchedImportRejected ==
  [][\A f \in T3ImportFiles, digests \in DigestChoices(1) :
       ( /\ T3ImportVault(f, "master-1", digests)
         /\ f.kind = "export"
         /\ f.walletAddress # t3WalletAddress )
       => ( last'.status = "error" /\ t3Vault' = t3Vault /\ t3Storage' = t3Storage )]_vars

(***************************************************************************)
(* Classification of the stored records.                                   *)
(***************************************************************************)
\* C11: after every add and every update the privacy level stored for a record
\* is the one determinePrivacyLevel gives for its title, notes and category,
\* whatever level the caller supplied or the previous content had.
C11_StoredTierIsClassified ==
  /\ vault # NoVault =>
       \A i \in 1..Len(vault.passwords) :
         vault.passwords[i].privacyLevel = DeterminePrivacyLevel(vault.passwords[i])
  /\ \A i \in 1..Len(T3References) :
       t3Storage.privacyLevels[T3References[i].id]
         = DeterminePrivacyLevel(StoredEntry(T3References[i]))

\* The Track 3 manager's side of C11: the level a record is stored under is
\* the classifier's, whatever privacyLevel field the entry carries.
T3StoredTierIsClassified ==
  \A i \in 1..Len(T3References) :
    /\ t3Storage.privacyLevels[T3References[i].id]
         = DeterminePrivacyLevel(StoredEntry(T3References[i]))
    /\ T3References[i].metadata.privacyLevel
         = DeterminePrivacyLevel(StoredEntry(T3References[i]))

\* Two letters that differ at most in case.
SameLetter(a, b) ==
  a = b \/ \E k \in 1..Len(UpperCase) : {a, b} = {UpperCase[k], LowerCase[k]}

\* str holds a sensitive keyword somewhere, in whatever case.
ContainsKeyword(str) ==
  \E kw \in SensitiveKeywords :
    \E i \in 1..(Len(Chars(str)) - Len(kw) + 1) :
      \A j \in 1..Len(kw) : SameLetter(Chars(str)[i + j - 1], kw[j])

\* C12: determinePrivacyLevel answers for every entry; it answers secret when
\* title or notes hold a sensitive keyword in whatever case, even under the
\* category Banking or Personal, otherwise private under Banking or Personal,
\* otherwise public; and entries alike in title, notes and category get the
\* same answer whatever their other fields are.
C12_ClassifyPrecedence ==
  last.op = "t3.determinePrivacyLevel" =>
    LET p == last.detail IN
    /\ last.status = "ok"
    /\ last.value \in {"public", "private", "secret"}
    /\ last.value = IF ContainsKeyword(p.title) \/ ContainsKeyword(p.notes) THEN "secret"
                    ELSE IF p.category \in {"Banking", "Personal"} THEN "private"
                    ELSE "public"
    /\ \A q \in ClassifyInputs :
         (q.title = p.title /\ q.notes = p.notes /\ q.category = p.category)
           => DeterminePrivacyLevel(q) = last.value

\* A title with a keyword in capitals under the category Banking was
\* classified secret.
C12_Witness ==
  /\ last.op = "t3.determinePrivacyLevel"
  /\ last.detail.title = "MyBANK"
  /\ last.detail.notes = "login"
  /\ last.detail.category = "Banking"
  /\ last.value = "secret"

(***************************************************************************)
(* Proofs.                                                                 *)
(***************************************************************************)
\* The time generateProof wrote into the token of proof.
IssuedAt(proof) == Atob(proof.proof)[1].val.timestamp

\* C13: a proof as generateProof issued it at time T, with public and private
\* inputs, is accepted by verifyProof at every time t with T <= t <= T + 24h
\* and rejected at every t > T + 24h.
C13_ProofExpiresAfterWindow ==
  ( /\ last.op = "seal.verifyProof"
    /\ last.detail.proof = last.detail.issued
    /\ Len(last.detail.proof.publicInputs) > 0
    /\ Len(last.detail.proof.privateInputs) > 0 )
  => LET T == IssuedAt(last.detail.proof)
         t == last.detail.at
     IN /\ (T <= t /\ t <= T + DayMs) => last.value = TRUE
        /\ t > T + DayMs => last.value = FALSE

\* A proof was accepted exactly 24 hours after it was issued.
C13_Witness ==
  /\ last.op = "seal.verifyProof"
  /\ last.detail.proof = last.detail.issued
  /\ Len(last.detail.proof.publicInputs) > 0
  /\ Len(last.detail.proof.privateInputs) > 0
  /\ last.detail.at = IssuedAt(last.detail.proof) + DayMs
  /\ last.value = TRUE

\* A proof was rejected one millisecond after its 24 hours.
ProofRejectedAfterWindow ==
  /\ last.op = "seal.verifyProof"
  /\ last.detail.proof = last.detail.issued
  /\ Len(last.detail.proof.publicInputs) > 0
  /\ Len(last.detail.proof.privateInputs) > 0
  /\ last.detail.at = IssuedAt(last.detail.proof) + DayMs + 1
  /\ last.value = FALSE

\* C14: a retrieve of a payload stored as secret, with a proof handed over that
\* fails one of the checks of verifyProof (token, age, public and private
\* inputs, verification key), is denied.
C14_BadProofDenied ==
  ( /\ last.op = "walrus.retrieve"
    /\ last.detail.privacyLevel = "secret"
    /\ last.detail.proof # NoProof
    /\ ~VerifyProof(last.detail.proof, last.detail.at) )
  => last.status = "error"

\* The part of C14 the code keeps: a secret payload is not retrieved without a
\* proof, nor with a proof whose token or public inputs are empty.
SecretRetrieveNeedsSomeProof ==
  ( /\ last.op = "walrus.retrieve"
    /\ last.detail.privacyLevel = "secret"
    /\ \/ last.detail.proof = NoProof
       \/ Len(last.detail.proof.publicInputs) = 0 )
  => last.status = "error"

\* A secret payload was handed out to a proof older than 24 hours.
ExpiredProofRetrieves ==
  /\ last.op = "walrus.retrieve"
  /\ last.status = "ok"
  /\ last.detail.privacyLevel = "secret"
  /\ last.detail.proof = last.detail.issued
  /\ last.detail.at > IssuedAt(last.detail.proof) + DayMs

\* An entry stored as secret was refused to a proof that fails verifyProof,
\* and the error is not the refusal of the proof.
EntryRefusedForItsText ==
  /\ last.op = "walrus.retrieve"
  /\ last.detail.privacyLevel = "secret"
  /\ last.detail.proof # NoProof
  /\ ~VerifyProof(last.detail.proof, last.detail.at)
  /\ last.status = "error"
  /\ last.value = "SyntaxError"

(***************************************************************************)
(* Reads of the Track 3 manager.                                           *)
(***************************************************************************)
\* C15: a getPassword of the id of a record the vault holds, for which the
\* manager issues a fresh proof, returns that record, as JSON writes it,
\* whatever level the record is stored under.
C15_GetAfterAddReturnsRecord ==
  ( /\ last.op = "t3.getPassword"
    /\ \E i \in 1..Len(T3References) : StoredEntry(T3References[i]).id = last.id )
  => ( /\ last.status = "ok"
       /\ Len(last.value) = 1
       /\ \E i \in 1..Len(T3References) :
            /\ StoredEntry(T3References[i]).id = last.id
            /\ last.value[1] = StoredEntry(T3References[i]) )

\* A getPassword found the reference of a record stored as private or secret
\* and failed on the text decryptAES handed to JSON.parse.
GetPasswordFailsOnDecrypt ==
  /\ last.op = "t3.getPassword"
  /\ last.status = "error"
  /\ last.value = "SyntaxError"

\* A getPassword returned the record: one stored as public whose reference
\* the id happens to find.
GetPasswordReturnsPublicRecord ==
  /\ last.op = "t3.getPassword"
  /\ last.status = "ok"
  /\ Len(last.value) = 1
  /\ last.value[1].id = last.id

(***************************************************************************)
(* Reads of the hybrid manager within a session.                           *)
(***************************************************************************)
\* C16: an addPassword into the vault createVault made empty leaves exactly
\* one record, the added one, and an entryCount of 1; getAllPasswords returns
\* the records of the vault, getVaultMetadata reports its entryCount, and
\* exportVault succeeds on it.
C16_ReadAfterWrite ==
  [][ /\ \A e \in SessionEntries, g \in GenIds, ok \in BOOLEAN :
           ( /\ AddPassword(e, g, ok)
             /\ vault # NoVault
             /\ currentWalletAddress # NoWallet
             /\ FreshVault )
           => ( /\ last'.status = "ok"
                /\ Len(vault'.passwords) = 1
                /\ vault'.passwords[1].id = (IF e.id = "" THEN g ELSE e.id)
                /\ vault'.passwords[1].title = e.title
                /\ vault'.passwords[1].password = e.password
                /\ vault'.passwords[1].notes = e.notes
                /\ vault'.passwords[1].category = e.category
                /\ vault'.entryCount = 1 )
      /\ (GetAllPasswords /\ vault # NoVault)
           => (last'.status = "ok" /\ last'.value = vault.passwords)
      /\ (GetVaultMetadata /\ vault # NoVault)
           => (last'.status = "ok" /\ last'.value.passwordCount = Len(vault.passwords))
      /\ \A salts \in SaltChoices, ivs \in IVChoices :
           (ExportVault(salts, ivs) /\ vault # NoVault)
           => ( /\ last'.status = "ok"
                /\ Len(exportFile'.vault.passwords) = Len(vault.passwords) )
    ]_vars

\* The entry of testRealSDK was added to the empty vault, the vault was
\* exported, and getAllPasswords returned the one entry.
C16_Witness ==
  /\ last.op = "getAllPasswords"
  /\ last.status = "ok"
  /\ Len(last.value) = 1
  /\ last.value[1].id = "test-1"
  /\ vault.entryCount = 1
  /\ exportFile # NoItem
  /\ Len(exportFile.vault.passwords) = 1

(***************************************************************************)
(* The cipher of WalrusStorage.                                            *)
(***************************************************************************)
\* A payload as JSON hands it back: a Date as its ISO string.
Jsonified(data) == JSONParse(JSONStringify(data)).value

\* C17: decryptWithPrivacy of what encryptWithPrivacy made of a payload, at the
\* same level and under the same key, returns the payload, at every level and
\* also for a payload whose JSON text holds ':'.
C17_CipherRoundTrip ==
  ( /\ last.op = "walrus.decryptWithPrivacy"
    /\ last.detail.given = last.detail.encrypted
    /\ last.detail.at = last.detail.encryptedAt )
  => ( /\ last.status = "ok"
       /\ last.value = Jsonified(last.detail.data) )

\* The part of C17 the code keeps: the round trip at the public level, and at
\* every level for a payload whose JSON text holds no ':'.
RoundTripWithoutColon ==
  ( /\ last.op = "walrus.decryptWithPrivacy"
    /\ last.detail.given = last.detail.encrypted
    /\ last.id = "public" \/ HasField(last.detail.data, "json") )
  => ( /\ last.status = "ok"
       /\ last.value = Jsonified(last.detail.data) )

\* C18: decryptWithPrivacy at the private or secret level of a ciphertext that
\* differs from the one encryptWithPrivacy made, in its key part or anywhere
\* else, fails and returns no plaintext.
C18_TamperedCiphertextFails ==
  ( /\ last.op = "walrus.decryptWithPrivacy"
    /\ last.id \in PrivateLevels
    /\ last.detail.given # last.detail.encrypted )
  => last.status = "error"

\* A ciphertext whose key part was replaced decrypted to the original payload.
ForgedKeyDecrypts ==
  /\ last.op = "walrus.decryptWithPrivacy"
  /\ last.id \in PrivateLevels
  /\ last.detail.given # last.detail.encrypted
  /\ last.status = "ok"
  /\ last.value = last.detail.data

\* A ciphertext whose payload part was replaced decrypted to the replacement.
ForgedTextDecrypts ==
  /\ last.op = "walrus.decryptWithPrivacy"
  /\ last.id \in PrivateLevels
  /\ last.status = "ok"
  /\ last.value = PlainText("forged text")

(***************************************************************************)
(* Lock and unlock.                                                        *)
(***************************************************************************)
RecordOps == {"addPassword", "updatePassword", "deletePassword", "getPassword",
              "getAllPasswords", "exportVault"}

\* C19: an add, update, delete, get, get-all or export attempted while the
\* vault is locked, between a lock and the next successful unlock included,
\* fails with an error.
C19_NoOperationWhileLocked ==
  ( ~isUnlocked /\ last.op \in RecordOps ) => last.status = "error"

\* The part of C19 the code keeps: while the manager holds no vault every
\* record operation fails and changes neither vault nor mirror nor remote
\* store, and so does createVault while no address is set.
NoVaultOperationsFail ==
  [][ /\ (vault = NoVault /\ last'.op \in RecordOps)
           => ( /\ last'.status = "error"
                /\ vault' = vault
                /\ localStorage' = localStorage
                /\ walrus' = walrus
                /\ exportFile' = exportFile )
      /\ (currentWalletAddress = NoWallet /\ last'.op = "createVault")
           => ( /\ last'.status = "error"
                /\ vault' = vault
                /\ localStorage' = localStorage
                /\ walrus' = walrus )
    ]_vars

\* A record was deleted from vault and mirror while the component was locked.
DeletedWhileLocked ==
  /\ ~isUnlocked
  /\ last.op = "deletePassword"
  /\ last.status = "ok"
  /\ last.detail # "not found"
  /\ Len(vault.passwords) < Len(SamplePasswords)

\* C20: handleLock leaves the manager without a vault in memory and leaves the
\* mirror of the address as it was.
C20_LockClearsVaultFromMemory ==
  [][HandleLock => (vault' = NoVault /\ localStorage' = localStorage)]_vars

\* The part of C20 the code keeps: handleLock locks the component and changes
\* nothing of the mirror, and the vault a following unlock validates is the
\* one the mirror holds.
LockKeepsMirror ==
  [][HandleLock => ( /\ ~isUnlocked'
                     /\ localStorage' = localStorage
                     /\ Mirror(localStorage', currentWalletAddress) = StringifyVault(vault') )
    ]_vars

(***************************************************************************)
(* Reset.                                                                  *)
(***************************************************************************)
ResetHandlers == {"resetMasterPassword", "forceResetVault"}

\* C21: a reset the user confirmed in the component is performed and does not
\* fail: it leaves the component locked and the manager without a vault in
\* memory, and the force reset leaves no mirror vault, key pair or stored
\* master password for the current address.
C21_ResetDestroysVault ==
  [][ (last'.op \in ResetHandlers /\ last'.detail # "cancelled")
        => ( /\ last'.status = "ok"
             /\ ~isUnlocked'
             /\ vault' = NoVault
             /\ last'.op = "forceResetVault"
                  => ( /\ Mirror(localStorage', currentWalletAddress) = NoItem
                       /\ currentWalletAddress \notin localStorage'.keypairs
                       /\ localStorage'.master = NoMaster ) )
    ]_vars

\* What the code does instead: a confirmed reset from the component fails and
\* changes nothing, in memory or in localStorage.
ComponentResetFailsUnchanged ==
  [][ (last'.op \in ResetHandlers /\ last'.detail # "cancelled")
        => ( /\ last'.status = "error"
             /\ vault' = vault
             /\ localStorage' = localStorage
             /\ isUnlocked' = isUnlocked )
    ]_vars

\* And the manager's own resets, on an address, end with a vault of two
\* entries in memory and in the mirror, the master password stored.
ManagerResetCreatesVault ==
  [][ (last'.op \in {"resetAndCreateNewVault", "emergencyClearAndStartFresh"}
         /\ last'.status = "ok")
        => ( /\ vault' # NoVault
             /\ Len(vault'.passwords) = 2
             /\ Mirror(localStorage', currentWalletAddress) = StringifyVault(vault')
             /\ localStorage'.master = last'.id )
    ]_vars

\* A confirmed reset was attempted from the component on a loaded vault.
ResetAttemptedOnVault ==
  /\ last.op \in ResetHandlers
  /\ last.detail # "cancelled"
  /\ vault # NoVault

(***************************************************************************)
(* Password strength.                                                      *)
(***************************************************************************)
\* The checks of C22, as conditions on the password.
SatisfiedChecks(password) ==
  { k \in 1..7 :
      \/ k = 1 /\ Len(password) >= 8
      \/ k = 2 /\ Len(password) >= 12
      \/ k = 3 /\ Len(password) >= 16
      \/ k = 4 /\ \E i \in DOMAIN password : password[i] \in LowerAZ
      \/ k = 5 /\ \E i \in DOMAIN password : password[i] \in UpperAZ
      \/ k = 6 /\ \E i \in DOMAIN password : password[i] \in Digits09
      \/ k = 7 /\ \E i \in DOMAIN password :
                     password[i] \notin (LowerAZ \cup UpperAZ \cup Digits09) }

StrengthOf(score) ==
  IF score <= 3 THEN "weak"
  ELSE IF score <= 5 THEN "medium"
  ELSE IF score <= 7 THEN "strong"
  ELSE "very-strong"

ScoredAsClaimed(call) ==
  /\ call.value.score \in 0..8
  /\ call.value.score = Cardinality(SatisfiedChecks(call.id))
  /\ call.value.strength = StrengthOf(call.value.score)

\* C22: every checkPasswordStrength, of whichever manager, returns as score
\* the number of satisfied checks among length >= 8, >= 12, >= 16, lowercase,
\* uppercase, digit and symbol, a number in 0..8, and as strength weak for a
\* score up to 3, medium up to 5, strong up to 7 and very-strong above.
C22_StrengthFromScore ==
  last.op = "checkPasswordStrength" => ScoredAsClaimed(last)

\* The part of C22 the code keeps: the checkers of walrus-seal-real.ts and
\* walrus-seal-track3.ts (and unnamed/part_000) score and grade as claimed;
\* their score never exceeds 7, so they never return very-strong.
CurrentCheckersScoreAsClaimed ==
  (last.op = "checkPasswordStrength" /\ last.detail # "walrus-seal")
     => (ScoredAsClaimed(last) /\ last.value.score <= 7)

\* The checker of walrus-seal.ts counts five checks and grades 3 as medium,
\* 4 as strong and 5 as very-strong.
LegacyCheckerGrades ==
  (last.op = "checkPasswordStrength" /\ last.detail = "walrus-seal")
     => ( /\ last.value.score = Cardinality(SatisfiedChecks(last.id) \ {2, 3})
          /\ last.value.strength =
                (CASE last.value.score <= 2 -> "weak"
                   [] last.value.score = 3 -> "medium"
                   [] last.value.score = 4 -> "strong"
                   [] OTHER -> "very-strong") )

\* A password of every check satisfied went through a current checker.
StrongPasswordScored ==
  /\ last.op = "checkPasswordStrength"
  /\ last.detail = "walrus-seal-real"
  /\ last.value.score = 7
  /\ last.value.strength = "strong"

\* The walrus-seal.ts checker graded an eight-letter password of three
\* character classes strong.
LegacyGradesFourStrong ==
  /\ last.op = "checkPasswordStrength"
  /\ last.detail = "walrus-seal"
  /\ Len(last.id) = 8
  /\ last.value.score = 4
  /\ last.value.strength = "strong"

(***************************************************************************)
(* Reading all records.                                                    *)
(***************************************************************************)
GetAllOps == {"getAllPasswords", "t3.getAllPasswords"}

\* C23: getAllPasswords changes neither the vault nor the mirror nor the
\* stores, and a getAllPasswords that follows another with no other call in
\* between (time may pass) returns what the first returned: the same records
\* in the same order.
C23_GetAllIdempotent ==
  [][ last'.op \in GetAllOps
        => ( /\ vault' = vault
             /\ localStorage' = localStorage
             /\ walrus' = walrus
             /\ t3Vault' = t3Vault
             /\ t3Storage' = t3Storage
             /\ last.op = last'.op => (last'.status = last.status /\ last'.value = last.value) )
    ]_vars

\* getAllPasswords returned two records, the second added after the first,
\* from a vault on which it can be called again.
C23_Witness ==
  /\ last.op = "getAllPasswords"
  /\ last.status = "ok"
  /\ Len(last.value) = 2
  /\ last.value[1].id # last.value[2].id
  /\ last.value = vault.passwords
  /\ now > 0

\* The Track 3 getAllPasswords returned a record it read back from the store.
T3GetAllReturnedRecord ==
  /\ last.op = "t3.getAllPasswords"
  /\ last.status = "ok"
  /\ Len(last.value) > 0

(***************************************************************************)
(* Persistence of the localStorage component.                              *)
(***************************************************************************)
\* A list as it is shown: dates are not shown, so a Date and its ISO string
\* are the same.
Shown(passwords) == TsxStringify(passwords).passwords

\* C24: whenever the component is unlocked, after any adds, edits, deletes,
\* locks, unlocks and reloads, it shows the list as it was right after the
\* last add, edit or delete.
C24_EveryChangePersists ==
  (tsx.isUnlocked /\ settled # NoItem) => Shown(tsx.passwords) = Shown(settled.passwords)

\* The part of C24 the code keeps: a change that leaves the list non-empty is
\* in localStorage from then on and is what the component shows when unlocked.
NonEmptyChangePersists ==
  (settled # NoItem /\ settled # [kind |-> "list", passwords |-> <<>>])
     => ( /\ localStorage.passwords = TsxStringify(settled.passwords)
          /\ tsx.isUnlocked => Shown(tsx.passwords) = Shown(settled.passwords) )

\* The last entry was deleted, and after a lock or reload and an unlock the
\* component shows an entry again.
DeletedEntryReappears ==
  /\ tsx.isUnlocked
  /\ settled = [kind |-> "list", passwords |-> <<>>]
  /\ last.op = "tsx.handleUnlock"
  /\ Len(tsx.passwords) = 1

\* A sample entry deleted last is shown again.
DeletedSampleReappears ==
  /\ DeletedEntryReappears
  /\ tsx.passwords[1].id = "sample-3"

(***************************************************************************)
(* Remote stores in flight.                                                *)
(***************************************************************************)
MirrorIds(ls, wallet) ==
  IF wallet = NoWallet THEN {}
  ELSE IF ls.vaults[wallet] = NoItem THEN {}
  ELSE {ls.vaults[wallet].passwords[i].id : i \in 1..Len(ls.vaults[wallet].passwords)}

\* C25: while the remote store of an addPassword is in flight, the mirror of
\* the address the add was made under already holds the new record.
C25_MirrorWrittenBeforeRemotePut ==
  \A k \in DOMAIN pending :
     pending[k].op = "addPassword"
       => pending[k].data.id \in MirrorIds(localStorage, pending[k].data.walletAddress)

\* What the code does: the call puts the record in the vault in memory and
\* leaves localStorage alone until the store has settled; without the SDK
\* nothing is awaited and the mirror has the record when the call returns.
MirrorWrittenAfterRemotePut ==
  [][ /\ (last'.op \in {"addPassword", "updatePassword"} /\ last'.status = "pending")
         => ( /\ localStorage' = localStorage
              /\ last'.id \in Ids(vault'.passwords) )
      /\ (last'.op = "addPassword" /\ last'.status = "ok" /\ vault' # NoVault)
         => Mirror(localStorage', currentWalletAddress) = StringifyVault(vault')
    ]_vars

\* An add is in flight and the mirror is without its record.
AddInFlightNotInMirror ==
  /\ Len(pending) > 0
  /\ pending[1].op = "addPassword"
  /\ Mirror(localStorage, currentWalletAddress) # NoItem
  /\ pending[1].data.id \notin MirrorIds(localStorage, currentWalletAddress)
  /\ pending[1].data.id \in Ids(vault.passwords)

(***************************************************************************)
(* Record ids.                                                             *)
(***************************************************************************)
UniqueIds(v) ==
  IF v = NoVault THEN TRUE
  ELSE \A i, j \in 1..Len(v.passwords) :
         v.passwords[i].id = v.passwords[j].id => i = j

\* C26: in every reachable state no two records of the vault have the same id.
C26_RecordIdsUnique == UniqueIds(vault)

\* The part of C26 the code keeps: an add under an id the vault does not hold,
\* an update and a delete leave the ids unique if they were, and an update
\* adds no record.
FreshIdsStayUnique ==
  [][ (UniqueIds(vault) /\ vault # NoVault /\ last'.status = "ok")
        => ( /\ (last'.op = "addPassword" /\ last'.id \notin Ids(vault.passwords))
                  => UniqueIds(vault')
             /\ last'.op \in {"updatePassword", "deletePassword"} => UniqueIds(vault')
             /\ last'.op = "updatePassword"
                  => ( /\ Len(vault'.passwords) = Len(vault.passwords)
                       /\ Cardinality({i \in 1..Len(vault'.passwords) :
                                          vault'.passwords[i].id = last'.id}) = 1 ) )
    ]_vars

\* Two records of the vault and of its mirror have the id of the second add.
TwoRecordsOneId ==
  /\ vault # NoVault
  /\ Len(vault.passwords) = 2
  /\ vault.passwords[1].id = vault.passwords[2].id
  /\ last.op = "addPassword"
  /\ Mirror(localStorage, currentWalletAddress) = StringifyVault(vault)

(***************************************************************************)
(* References to the remote store.                                         *)
(***************************************************************************)
ReferencedIds(v) == IF v = NoVault THEN {} ELSE DOMAIN v.walrusReferences

RecordIds(v) == IF v = NoVault THEN {} ELSE Ids(v.passwords)

\* C27: whenever no remote store is in flight, every key of walrusReferences
\* is the id of a record of the vault.
C27_NoDanglingReference ==
  pending = <<>> => ReferencedIds(vault) \subseteq RecordIds(vault)

\* The part of C27 the code keeps: calls that run one after the other, each to
\* its end, leave no reference without its record.
NoDanglingReferenceInSequence ==
  ReferencedIds(vault) \subseteq RecordIds(vault)

\* A reference without a record, in the vault and in its mirror, with nothing
\* in flight: the store of an add settled after the record was deleted.
DanglingReferenceAtRest ==
  /\ pending = <<>>
  /\ vault # NoVault
  /\ vault.passwords = <<>>
  /\ "p1" \in DOMAIN vault.walrusReferences
  /\ Mirror(localStorage, currentWalletAddress) = StringifyVault(vault)

\* The same after an update: its store settled after the record was deleted.
DanglingReferenceAfterUpdate ==
  /\ pending = <<>>
  /\ last.op = "updatePassword"
  /\ last.detail = "stored"
  /\ last.id \notin RecordIds(vault)
  /\ last.id \in ReferencedIds(vault)

(***************************************************************************)
(* Delete while a store is in flight.                                      *)
(***************************************************************************)
\* deletePassword removed the record whose store is in flight, the only
\* record of that id, and now that store settles.
SettlesAfterDelete ==
  /\ Len(pending) = 1
  /\ pending' = <<>>
  /\ last.op = "deletePassword"
  /\ last.detail # "not found"
  /\ last.id = pending[1].data.id
  /\ last.id \notin RecordIds(vault)
  /\ pending[1].index = 0
  /\ last'.op = pending[1].op

\* C28: when deletePassword(id) has run to its end while the store of an
\* addPassword or updatePassword of that id was in flight, then once the store
\* has settled the vault has no record of that id and no reference for it.
C28_DeleteWinsOverInFlightStore ==
  [][ SettlesAfterDelete
        => ( /\ last'.id \notin RecordIds(vault')
             /\ last'.id \notin ReferencedIds(vault') )
    ]_vars

\* The part of C28 the code keeps: the record stays deleted, in the vault and
\* in the mirror, and a store that was rejected leaves no reference.
DeletedRecordStaysDeleted ==
  [][ SettlesAfterDelete
        => ( /\ last'.id \notin RecordIds(vault')
             /\ last'.id \notin MirrorIds(localStorage', currentWalletAddress)
             /\ last'.detail = "failed" => last'.id \notin ReferencedIds(vault') )
    ]_vars

\* The store of an add settled after the delete of its record and left the
\* reference, and the blob in the remote store.
ReferenceWrittenAfterDelete ==
  /\ pending = <<>>
  /\ last.op = "addPassword"
  /\ last.detail = "stored"
  /\ last.id \notin RecordIds(vault)
  /\ last.id \in ReferencedIds(vault)
  /\ Len(walrus) = 1
  /\ walrusDeleted = {}

(***************************************************************************)
(* Two addresses.                                                          *)
(***************************************************************************)
\* C29: whenever the manager holds a vault in memory, the vault is the one of
\* the current address.
C29_VaultOfCurrentAccount ==
  IF vault = NoVault THEN TRUE ELSE vault.walletAddress = currentWalletAddress

\* The part of C29 the code keeps: setWalletAddress on an address whose mirror
\* holds a vault loads that vault, and createVault makes the vault of the
\* current address.
StoredVaultLoaded ==
  [][ /\ \A w \in Wallets :
            (last'.op = "setWalletAddress" /\ last'.id = w /\ Mirror(localStorage, w) # NoItem)
               => vault' = ParseVault(Mirror(localStorage, w))
      /\ (last'.op = "createVault" /\ last'.status = "ok")
            => vault'.walletAddress = currentWalletAddress
    ]_vars

\* Under the address wB, which never had a vault, getAllPasswords returned
\* the records of the vault of wA.
GetAllReturnsOtherAccount ==
  /\ currentWalletAddress = "wB"
  /\ last.op = "getAllPasswords"
  /\ last.status = "ok"
  /\ Len(last.value) > 0
  /\ vault.walletAddress = "wA"
  /\ createdWith["wB"] = NoMaster

\* The mirror key of wB holds the vault of wA: an add under wB saved it there.
OtherAccountSavedUnderMirror ==
  /\ Mirror(localStorage, "wB") # NoItem
  /\ Mirror(localStorage, "wB").walletAddress = "wA"
  /\ createdWith["wB"] = NoMaster
  /\ last.op = "addPassword"

\* The same by an add begun under wA, as the blob it stored says, whose store
\* settled under wB.
InFlightAddSavedUnderOtherMirror ==
  /\ OtherAccountSavedUnderMirror
  /\ last.detail = "stored"
  /\ Len(walrus) = 1
  /\ walrus[1].walletAddress = "wA"
  /\ Len(Mirror(localStorage, "wB").passwords) = 1
  /\ Mirror(localStorage, "wA") # NoItem
  /\ Len(Mirror(localStorage, "wA").passwords) = 0

\* The durable state of address a is as it was: its mirror vault, its key
\* pair, and the master password stored when it has a vault.
DurableStateKept(a) ==
  /\ Mirror(localStorage', a) = Mirror(localStorage, a)
  /\ a \in localStorage.keypairs => a \in localStorage'.keypairs
  /\ Mirror(localStorage, a) # NoItem => localStorage'.master = localStorage.master

\* C30: a call made under one address leaves the durable state of every
\* other address as it was.
C30_AccountIsolation ==
  [][ \A a \in Wallets : a # currentWalletAddress' => DurableStateKept(a) ]_vars

ManagerResets == {"resetAndCreateNewVault", "emergencyClearAndStartFresh"}

\* The part of C30 the code keeps: the mirror vault and the key pair are
\* stored per address, and every call but the two resets leaves those of the
\* other addresses as they were.
OtherMirrorsKeptButByReset ==
  [][ \A a \in Wallets :
        (a # currentWalletAddress' /\ last'.op \notin ManagerResets)
          => ( /\ Mirror(localStorage', a) = Mirror(localStorage, a)
               /\ a \in localStorage.keypairs => a \in localStorage'.keypairs )
    ]_vars

\* A reset under wB removed the mirror vault and the key pair of wA.
ResetErasedOtherAccount ==
  /\ currentWalletAddress = "wB"
  /\ last.op \in ManagerResets
  /\ createdWith["wA"] # NoMaster
  /\ Mirror(localStorage, "wA") = NoItem
  /\ "wA" \notin localStorage.keypairs

\* An unlock under wB replaced the master password stored with the vault of wA.
MasterPasswordOfOtherAccountReplaced ==
  /\ currentWalletAddress = "wB"
  /\ last.op = "handleUnlock"
  /\ Mirror(localStorage, "wA") # NoItem
  /\ createdWith["wA"] = "master-1"
  /\ localStorage.master = "master-2"

(***************************************************************************)
(* C31: an unreadable mirror entry is reported and not overwritten.        *)
(***************************************************************************)
Unreadable(ls, wallet) == wallet # NoWallet /\ ls.vaults[wallet] = Unparseable

\* C31: loading an address whose mirror entry exists but cannot be parsed
\* answers the caller with an error, and an unlock while the entry of the
\* current address is unreadable leaves that entry as it is.
C31_UnreadableMirrorReported ==
  [][ /\ (last'.op = "setWalletAddress" /\ Unreadable(localStorage, last'.id))
           => last'.status = "error"
      /\ (last'.op = "handleUnlock" /\ Unreadable(localStorage, currentWalletAddress))
           => localStorage'.vaults[currentWalletAddress] = Unparseable ]_vars

\* What the code does: the load of an unreadable entry answers ok and leaves
\* no vault in memory.
UnreadableMirrorLoadsNoVault ==
  [][ (last'.op = "setWalletAddress" /\ Unreadable(localStorage, last'.id))
        => (last'.status = "ok" /\ vault' = NoVault) ]_vars

\* A well-formed entry is loaded as the vault it holds.
ReadableMirrorLoaded ==
  [][ (last'.op = "setWalletAddress" /\ localStorage.vaults[last'.id] \notin {NoItem, Unparseable})
        => vault' = ParseVault(localStorage.vaults[last'.id]) ]_vars

\* The second half of C31 alone: an unlock while the entry of the current
\* address is unreadable leaves the entry as it is.
UnreadableMirrorKeptByUnlock ==
  [][ (last'.op = "handleUnlock" /\ Unreadable(localStorage, currentWalletAddress))
        => localStorage'.vaults[currentWalletAddress] = Unparseable ]_vars

\* What the code does: such an unlock that passes the length check, after the
\* load has left no vault in memory, creates a vault of the samples and saves
\* it over the entry.
UnreadableMirrorOverwritten ==
  [][ ( /\ last'.op = "handleUnlock" /\ last'.status = "ok"
        /\ Unreadable(localStorage, currentWalletAddress) /\ vault = NoVault )
        => ( /\ last'.value = "created"
             /\ Len(vault'.passwords) = Len(SamplePasswords)
             /\ localStorage'.vaults[currentWalletAddress] = StringifyVault(vault') ) ]_vars

\* Reached: an unlock has created a vault while the address already had one.
VaultCreatedTwice ==
  /\ last.op = "handleUnlock" /\ last.value = "created"
  /\ walrusDeleted # {}

(***************************************************************************)
(* C32: import and the sentinel of the exported fields.                    *)
(***************************************************************************)
\* The entries of a file whose encryptedData importVault sends to
\* decryptFromImport, and those of them on which it throws.
SentEntries(f) ==
  {i \in 1..Len(f.vault.passwords) :
     /\ HasField(f.vault.passwords[i], "encryptedData")
     /\ (f.vault.passwords[i].password = Sentinel \/ f.vault.passwords[i].notes = Sentinel)}

DecryptionFails(f, masterPassword) ==
  \E i \in SentEntries(f) :
     ~DecryptFromImport(f.vault.passwords[i].encryptedData, masterPassword).ok

HoldsSentinel(v) ==
  \E i \in 1..Len(v.passwords) :
     v.passwords[i].password = Sentinel \/ v.passwords[i].notes = Sentinel

Importable(f) ==
  f.kind = "export" /\ ~WalletAddressMismatch(f, currentWalletAddress)

\* C32: an import that completes leaves no record whose password or notes is
\* the sentinel, and an import of a file of the current address on which the
\* decryption of some record fails answers with an error and keeps the vault
\* and the mirror.
C32_ImportNeverInstallsSentinel ==
  [][ \A f \in ImportFiles :
        ImportVault(f) =>
          /\ (last'.status = "ok" => ~HoldsSentinel(vault'))
          /\ (Importable(f) /\ DecryptionFails(f, GetMasterPassword(localStorage)))
               => ( /\ last'.status = "error"
                    /\ vault' = vault
                    /\ localStorage' = localStorage ) ]_vars

\* An import on which every decryption succeeds, of an export of a vault
\* that held no sentinel, leaves no sentinel.
DecryptedImportHoldsNoSentinel ==
  [][ \A f \in ImportFiles :
        ( /\ ImportVault(f) /\ Importable(f)
          /\ f = exportFile /\ ~HoldsSentinel(exported)
          /\ ~DecryptionFails(f, GetMasterPassword(localStorage)) )
        => (last'.status = "ok" /\ ~HoldsSentinel(vault')) ]_vars

\* What the code does when a decryption fails: the import completes, the
\* record keeps the sentinel and its encryptedData, and the mirror is saved.
FailedDecryptionInstallsSentinel ==
  [][ \A f \in ImportFiles :
        ( /\ ImportVault(f) /\ Importable(f)
          /\ DecryptionFails(f, GetMasterPassword(localStorage)) )
        => ( /\ last'.status = "ok"
             /\ \A i \in SentEntries(f) :
                   ~DecryptFromImport(f.vault.passwords[i].encryptedData,
                                      GetMasterPassword(localStorage)).ok
                   => /\ vault'.passwords[i].password = Sentinel
                      /\ vault'.passwords[i].notes = Sentinel
                      /\ HasField(vault'.passwords[i], "encryptedData")
             /\ localStorage'.vaults[currentWalletAddress] = StringifyVault(vault') ) ]_vars

\* Reached: the import of the manager's own export, under another master
\* password than the export's, has completed with the sentinel as a password.
SentinelInstalled ==
  /\ last.op = "importVault" /\ last.status = "ok" /\ last.detail.ownExport
  /\ exported # NoItem /\ exported.masterPassword # GetMasterPassword(localStorage)
  /\ HoldsSentinel(vault)
  /\ localStorage.vaults[currentWalletAddress] = StringifyVault(vault)

(***************************************************************************)
(* C33: the remote reference of a record after its update.                 *)
(***************************************************************************)
\* The blob a walrusId names was stored from the content of the record p.
StoredFrom(blobs, walrusId, p) ==
  /\ walrusId \in 1..Len(blobs)
  /\ blobs[walrusId].id = p.id
  /\ blobs[walrusId].password = p.password
  /\ blobs[walrusId].notes = p.notes

\* The references of the record at index i of a vault, walrusReferences entry
\* and walrusId field, are absent or name a blob stored from its content.
ReferencesCurrent(v, blobs, i) ==
  LET p == v.passwords[i] IN
  /\ p.id \in DOMAIN v.walrusReferences
       => StoredFrom(blobs, v.walrusReferences[p.id].walrusId, p)
  /\ p.walrusId # 0 => StoredFrom(blobs, p.walrusId, p)

\* C33: after a completed update of a record, its remote reference is absent
\* or names a blob stored from the new content.
C33_UpdateReplacesRemoteReference ==
  [][ (last'.op = "updatePassword" /\ last'.status = "ok")
        => ReferencesCurrent(vault', walrus', FindIndex(vault'.passwords, last'.id)) ]_vars

\* An update whose remote store succeeded leaves references to the new blob.
StoredUpdateReplacesReference ==
  [][ (last'.op = "updatePassword" /\ last'.status = "ok" /\ last'.detail = "stored")
        => LET i == FindIndex(vault'.passwords, last'.id) IN
           /\ ReferencesCurrent(vault', walrus', i)
           /\ vault'.walrusReferences[last'.id].walrusId = Len(walrus')
           /\ vault'.passwords[i].walrusId = Len(walrus') ]_vars

\* What the code does when the remote store of the update fails: the
\* walrusReferences entry and the walrusId of the record stay as they were.
FailedUpdateKeepsReference ==
  [][ (last'.op = "updatePassword" /\ last'.status = "ok" /\ last'.detail = "failed")
        => LET i == FindIndex(vault.passwords, last'.id) IN
           /\ vault'.walrusReferences = vault.walrusReferences
           /\ vault'.passwords[i].walrusId = vault.passwords[i].walrusId
           /\ walrus' = walrus ]_vars

\* Reached: an update whose remote store failed has completed, and the
\* record's reference names the blob of the content it had before.
StaleReferenceAfterUpdate ==
  /\ last.op = "updatePassword" /\ last.status = "ok" /\ last.detail = "failed"
  /\ LET i == FindIndex(vault.passwords, last.id)
         p == vault.passwords[i] IN
     /\ p.id \in DOMAIN vault.walrusReferences
     /\ p.walrusId = vault.walrusReferences[p.id].walrusId
     /\ walrus[p.walrusId].id = p.id
     /\ walrus[p.walrusId].password # p.password
     /\ localStorage.vaults[currentWalletAddress] = StringifyVault(vault)

(***************************************************************************)
(* C34: an unlock with another secret than the vault's and durable state.  *)
(***************************************************************************)
\* A step is an unlock of an existing vault with a secret other than the one
\* the vault of the address was created with.
UnlockWithOtherSecret ==
  /\ last'.op = "handleUnlock"
  /\ vault # NoVault
  /\ last'.id # createdWith[vault.walletAddress]

\* C34: an unlock of an existing vault with a secret that is not the vault's
\* leaves the stored master password and the mirror as they were, and every
\* export encrypts under the master password the vault was created with.
C34_UnlockKeepsDurableState ==
  [][ /\ UnlockWithOtherSecret
           => ( /\ localStorage'.master = localStorage.master
                /\ localStorage'.vaults = localStorage.vaults )
      /\ (last'.op = "exportVault" /\ last'.status = "ok")
           => exported'.masterPassword = createdWith[vault.walletAddress] ]_vars

\* An unlock of an existing vault never writes the mirror.
UnlockKeepsMirror ==
  [][ (last'.op = "handleUnlock" /\ vault # NoVault)
        => (localStorage'.vaults = localStorage.vaults /\ vault' = vault) ]_vars

\* What the code does: every unlock of an existing vault with a password
\* that passes the length check stores that password as the master password
\* and unlocks.
UnlockStoresSuppliedSecret ==
  [][ (last'.op = "handleUnlock" /\ vault # NoVault /\ Len(last'.id) >= MinMasterLength)
        => ( /\ localStorage'.master = last'.id
             /\ last'.status = "ok"
             /\ isUnlocked' ) ]_vars

\* Reached: after an unlock with another secret, an export has encrypted
\* under that secret and not under the one the vault was created with.
ExportedUnderOtherSecret ==
  /\ last.op = "exportVault" /\ last.status = "ok"
  /\ vault # NoVault
  /\ createdWith[vault.walletAddress] \in Masters
  /\ exported.masterPassword \in Masters \ {createdWith[vault.walletAddress]}
  /\ localStorage.master = exported.masterPassword

(***************************************************************************)
(* C35: destruction and confirmation.                                      *)
(***************************************************************************)
\* A step destroys vault data: a record the mirror of some address held is
\* no longer in it, or the stored list of PasswordManager.tsx is removed.
VaultDataDestroyed ==
  \/ \E w \in Wallets : MirrorIds(localStorage, w) \ MirrorIds(localStorage', w) # {}
  \/ localStorage.passwords # NoItem /\ localStorage'.passwords = NoItem

\* A request came through a handler that asks with confirm(), and the answer.
ConfirmingHandlers == ResetHandlers \cup {"tsx.resetMasterPassword"}
Confirmed(call) == call.op \in ConfirmingHandlers /\ call.detail # "cancelled"
Declined(call) == call.op \in ConfirmingHandlers /\ call.detail = "cancelled"

\* C35: every step that destroys vault data belongs to a request that was
\* confirmed, and a declined request leaves the vault, the mirror and the
\* lock state as they were.
C35_DestructionNeedsConfirmation ==
  [][ /\ VaultDataDestroyed => Confirmed(last')
      /\ Declined(last')
           => ( /\ vault' = vault
                /\ localStorage' = localStorage
                /\ isUnlocked' = isUnlocked
                /\ tsx' = tsx ) ]_vars

\* The half of C35 the handlers keep: a declined request changes nothing.
DeclinedResetChangesNothing ==
  [][ Declined(last')
        => ( /\ vault' = vault
             /\ localStorage' = localStorage
             /\ isUnlocked' = isUnlocked
             /\ tsx' = tsx ) ]_vars

\* Among the steps of the components, only a confirmed request destroys.
HandlerDestroysOnlyConfirmed ==
  [][ (VaultDataDestroyed /\ last'.op \notin ManagerResets) => Confirmed(last') ]_vars

\* A confirmed reset of PasswordManager.tsx removes the stored list and the
\* stored master password.
ConfirmedTsxResetRemoves ==
  [][ (last'.op = "tsx.resetMasterPassword" /\ Confirmed(last'))
        => ( /\ localStorage'.passwords = NoItem
             /\ localStorage'.master = NoMaster
             /\ tsx' = [passwords |-> <<>>, isUnlocked |-> FALSE] ) ]_vars

\* What the manager's resets do: they take a master password and nothing
\* else, and on a stored vault they destroy at once.
ManagerResetDestroysAtOnce ==
  [][ ( /\ last'.op \in ManagerResets
        /\ \E w \in Wallets : "sample-1" \in MirrorIds(localStorage, w) )
        => VaultDataDestroyed ]_vars

\* Reached: a reset of the manager has removed the records of a stored
\* vault, no request having been confirmed.
DestroyedWithoutConfirmation ==
  /\ last.op \in ManagerResets /\ last.status = "ok"
  /\ "sample-1" \notin MirrorIds(localStorage, currentWalletAddress)
  /\ \E w \in Wallets : createdWith[w] # NoMaster /\ w # currentWalletAddress
                         /\ localStorage.vaults[w] = NoItem

(***************************************************************************)
(* C36: the list the component shows and the vault in memory.              *)
(***************************************************************************)
ShownIds == Ids(ShownPasswords)
VaultIds == IF vault = NoVault THEN {} ELSE Ids(vault.passwords)

\* C36: while the component is unlocked, the ids of the list it shows are the
\* ids of the records of the vault in memory.
C36_ShownIdsAreVaultIds ==
  isUnlocked => ShownIds = VaultIds

ListHandlers ==
  {"handleUnlock", "component.addPassword", "component.editPassword",
   "component.deletePassword", "component.importVault"}

\* The part of C36 the handlers keep: an unlock leaves the ids shown equal to
\* those of the vault, and an add, edit, delete or import that starts with
\* them equal leaves them equal.
HandlersKeepShownIds ==
  [][ ( /\ last'.op \in ListHandlers
        /\ isUnlocked'
        /\ isUnlocked => ShownIds = VaultIds )
        => ShownIds' = VaultIds' ]_vars

\* What the account effect does: setWalletAddress changes the vault in
\* memory when the address has a stored one, and the list shown stays.
AccountChangeKeepsList ==
  [][ last'.op = "setWalletAddress" => ShownPasswords' = ShownPasswords ]_vars

\* Reached: the account changed while the component was unlocked, and the
\* list shown holds a record the vault in memory does not, or lacks one.
ShownIdsOfOtherVault ==
  /\ isUnlocked
  /\ last.op = "setWalletAddress"
  /\ vault # NoVault
  /\ ShownIds # VaultIds

\* Reached: after an unlock of a stored vault, an add has put the new record
\* into the list twice.
AddedRecordShownTwice ==
  /\ isUnlocked
  /\ last.op = "component.addPassword" /\ last.status = "ok"
  /\ Len(ShownPasswords) = Len(vault.passwords) + 1
  /\ ShownIds = VaultIds

\* ---------------------------------------------------------------------------
\* C37: in the canonical strength checker (the length checks at 8, 12 and 16
\* and the four character-class checks, one point each) the score never
\* exceeds 7 whatever the password, so "very-strong" is never returned.
CanonicalCall ==
  /\ last.op = "checkPasswordStrength"
  /\ (last.detail = "walrus-seal-real" \/ last.detail = "walrus-seal-track3")
C37_CanonicalScoreAtMostSeven ==
  CanonicalCall =>
    /\ last.value.score >= 0
    /\ last.value.score <= 7
    /\ last.value.strength # "very-strong"

\* A password of sixteen characters or more holding all four classes: every
\* one of the seven checks scores, and the result is still "strong".
C37_Witness ==
  /\ CanonicalCall
  /\ Len(last.id) >= 16
  /\ Test(LowerAZ, last.id) /\ Test(UpperAZ, last.id) /\ Test(Digits09, last.id)
  /\ TestNot(UpperAZ \cup LowerAZ \cup Digits09, last.id)
  /\ last.value.score = 7
  /\ last.value.strength = "strong"

====
